---- MODULE Spec2Model ----
(***************************************************************************)
(* omni-ask: the client-side session orchestrator (useAIStreaming), the   *)
(* transport client (realStream) and the server-side stream proxy          *)
(* (stream-ai), as state machines.                                         *)
(*                                                                         *)
(* Text is modelled as a sequence of chunks; string concatenation is \o.   *)
(* A chunk of the orchestrator is the pair <<run, index>>: the index-th    *)
(* chunk yielded by the stream of that run, so that the origin of every    *)
(* piece of a session's text stays visible.                                *)
(***************************************************************************)
EXTENDS Integers, Sequences, FiniteSets, TLC

\* ------------------------------------------------------------------ bounds
MaxCalls == 2        \* accepted submitQuestion and retryProvider calls in one behaviour
MaxChunks == 2       \* chunks the streams of one behaviour deliver, all together
MaxLines == 2        \* complete lines of one upstream response body

\* --------------------------------------------------------------- constants
PROVIDERS == <<"perplexity", "gemini", "chatgpt", "claude">>

Providers == {PROVIDERS[i] : i \in DOMAIN PROVIDERS}

NullError == "null"
DefaultError == "Failed to get response"
StreamFailure == "stream failed"

\* Questions the callers pass: empty, blank, and a real one (padded).
Questions == {<<>>, <<" ">>, <<"x", " ">>}

\* Questions of the history sidebar: saved current questions.
HistoryQuestions == {<<"x">>}

Whitespace == {" ", "\t", "\n", "\r"}

RECURSIVE TrimStart(_)
TrimStart(s) ==
  IF s # <<>> /\ Head(s) \in Whitespace THEN TrimStart(Tail(s)) ELSE s

RECURSIVE TrimEnd(_)
TrimEnd(s) ==
  IF s # <<>> /\ s[Len(s)] \in Whitespace
    THEN TrimEnd(SubSeq(s, 1, Len(s) - 1))
    ELSE s

\* String.prototype.trim
Trim(s) == TrimEnd(TrimStart(s))

\* ------------------------------------------------------------------- state
VARIABLES
  providerStates,   \* useState: provider -> AIProviderState
  currentQuestion,  \* useState
  isQuerying,       \* useState
  abortRef,         \* useRef: the current AbortController (0 = null)
  nControllers,     \* AbortControllers constructed so far (ids 1..n)
  aborted,          \* the controllers whose signal is aborted
  runs,             \* every runProvider call so far, in call order
  mounted,          \* FALSE once the component has unmounted
  callsLeft,        \* accepted submits and retries the behaviour may still make
  chunksLeft,       \* chunks the streams of the behaviour may still deliver
  lastEvent,        \* the stream event of the last step, if it was one
  \* Index.tsx, the save effect
  savedRef,         \* useRef: the question saved last ('' at first)
  saves,            \* every addConversation call so far, in call order
  \* stream-ai, one request from adapter dispatch on
  reqProvider,      \* body.provider
  pc,               \* where the generator of makeStream stands
  wire,             \* the part of the upstream body not read yet
  buf,              \* the adapter's buf: the unfinished last line
  out,              \* the records enqueued on the outbound body, in order
  closed,           \* controller.close() has been called
  \* stream-ai, the handler of Deno.serve and its environment
  request,          \* req: its method, whether its body is JSON, body.question,
                    \* body.conversationHistory and whether the body has one
  storedKey,        \* what get_decrypted_key has for the user and provider ("" = nothing)
  envKey,           \* the environment variable of the provider ("" = not set)
  userKey,          \* const userKey: what getUserApiKey returned
  apiKey,           \* const apiKey, once resolved
  messages,         \* const messages: the list handed to the adapter
  response,         \* the Response the handler returned
  lookups,          \* getUserApiKey calls made
  upstream,         \* the upstream response: what fetch delivered, whether a read failed
  \* aiService.ts, one streamAIResponse call
  stage,            \* where the generator stands
  fetched,          \* the Response its fetch resolved to
  body,             \* the part of response.body not read yet; in mock mode,
                    \* the tokens of the mock response not yielded yet
  buffer,           \* let buffer
  tokens,           \* the chunks yielded so far, in order
  failure,          \* the message of the Error it threw
  cancelled,        \* options.signal.aborted
  \* FocusedConversation.tsx, one focused session
  sessionMessages,     \* useState: messages, the turns in order
  sessionInput,        \* useState: input
  sessionStreamingId,  \* useState: streamingId (0 = null)
  sessionStreaming,    \* useState: isStreaming
  sessionAbortRef,     \* useRef: abortRef, the current AbortController (0 = null)
  sessionControllers,  \* AbortControllers the session constructed so far (ids 1..n)
  sessionAborted,      \* those whose signal is aborted
  exchanges,           \* every accepted sendMessage call so far, in call order
  sessionMounted,      \* TRUE while the component is mounted
  sendsLeft,           \* sendMessage calls the behaviour may still make
  deltasLeft,          \* chunks the streams of the session may still deliver
  sessionEvent         \* what the last step of the session was

hookVars == <<providerStates, currentQuestion, isQuerying, abortRef, nControllers,
              aborted, runs, mounted, callsLeft, chunksLeft, lastEvent,
              savedRef, saves>>

\* What the streaming part of a request leaves alone.
reqVars == <<request, storedKey, envKey, userKey, apiKey, messages, response, lookups>>

proxyVars == <<reqProvider, pc, wire, buf, out, closed, reqVars, upstream>>

clientVars == <<stage, fetched, body, buffer, tokens, failure, cancelled>>

sessionVars == <<sessionMessages, sessionInput, sessionStreamingId, sessionStreaming,
                 sessionAbortRef, sessionControllers, sessionAborted, exchanges,
                 sessionMounted, sendsLeft, deltasLeft, sessionEvent>>

vars == <<hookVars, proxyVars, clientVars, sessionVars>>

\* ------------------------------------------------------ useAIStreaming.ts
\* mutant: the initial entry of a session is a streaming one
entryStreaming(isStreaming) ==
  [content |-> <<>>, isStreaming |-> TRUE, isComplete |-> FALSE,
   error |-> NullError, timestamp |-> 0]

entry(isStreaming) ==
  [content |-> <<>>, isStreaming |-> isStreaming, isComplete |-> FALSE,
   error |-> NullError, timestamp |-> 0]

makeInitialState(isStreaming) == [p \in Providers |-> entry(isStreaming)]

\* A partial AIProviderState merged over the previous one: { ...prev, ...patch }
Merge(prev, patch) ==
  [f \in DOMAIN prev |-> IF f \in DOMAIN patch THEN patch[f] ELSE prev[f]]

\* mutant: the patch is merged into every session
patchEvery(states, provider, patch) ==
  [q \in Providers |-> Merge(states[q], patch)]

patchProvider(states, provider, patch) ==
  [states EXCEPT ![provider] = Merge(states[provider], patch)]

\* The patch runProvider applies before it opens the stream.
StartPatch ==
  [isStreaming |-> TRUE, content |-> <<>>, error |-> NullError,
   isComplete |-> FALSE]

IsAborted(signal) == signal \in aborted

\* The record of one runProvider call. batch is the controller of the
\* submitQuestion call that awaits it (0 for a run started by retryProvider);
\* content is the local variable of the call, yielded is every chunk its
\* stream has produced. status and superseded are history: how the call
\* ended, and whether a later submit or a reset has happened since it started.
NewRun(provider, question, signal, batch) ==
  [provider |-> provider, question |-> question, signal |-> signal,
   batch |-> batch, content |-> <<>>, yielded |-> <<>>,
   status |-> "streaming", superseded |-> FALSE]

Live(r) == runs[r].status = "streaming"

NoEvent == [kind |-> "none", run |-> 0]

Mounted ==
  /\ providerStates = makeInitialState(FALSE)
  /\ currentQuestion = <<>>
  /\ isQuerying = FALSE
  /\ abortRef = 0
  /\ nControllers = 0
  /\ aborted = {}
  /\ runs = <<>>
  /\ mounted = TRUE
  /\ lastEvent = NoEvent
  /\ savedRef = <<>>
  /\ saves = <<>>

\* Nothing fetched, nothing answered.
NoUpstream == [kind |-> "none", status |-> "", text |-> <<>>]

NoResponse == [status |-> 0, type |-> "", text |-> <<>>]

\* No realStream call.
NoStream ==
  /\ stage = "idle"
  /\ fetched = NoUpstream
  /\ body = <<>>
  /\ buffer = <<>>
  /\ tokens = <<>>
  /\ failure = <<>>
  /\ cancelled = FALSE

\* No request at the proxy.
NoProxyRequest ==
  /\ reqProvider = ""
  /\ pc = "idle"
  /\ wire = <<>>
  /\ buf = <<>>
  /\ out = <<>>
  /\ closed = FALSE
  /\ request = [method |-> "", json |-> FALSE, question |-> "",
                hasHistory |-> FALSE, history |-> <<>>]
  /\ storedKey = ""
  /\ envKey = ""
  /\ userKey = ""
  /\ apiKey = ""
  /\ messages = <<>>
  /\ response = NoResponse
  /\ lookups = 0
  /\ upstream = NoUpstream

\* No request at the proxy, and no realStream call.
\* No focused session is open.
NoSession ==
  /\ sessionMessages = <<>>
  /\ sessionInput = <<>>
  /\ sessionStreamingId = 0
  /\ sessionStreaming = FALSE
  /\ sessionAbortRef = 0
  /\ sessionControllers = 0
  /\ sessionAborted = {}
  /\ exchanges = <<>>
  /\ sessionMounted = FALSE
  /\ sendsLeft = 0
  /\ deltasLeft = 0
  /\ sessionEvent = NoEvent

NoRequest == NoProxyRequest /\ NoStream /\ NoSession

Init ==
  /\ Mounted
  /\ NoRequest
  /\ callsLeft = MaxCalls
  /\ chunksLeft = MaxChunks

\* mutant: the previous controller is not aborted
AbortNothing == aborted

\* abortRef.current?.abort()
AbortCurrent == IF abortRef = 0 THEN aborted ELSE aborted \cup {abortRef}

\* mutant: the streams get the signal of the previous controller
StartedRunsOldSignal(question, controller) ==
  [i \in DOMAIN PROVIDERS |-> NewRun(PROVIDERS[i], question, abortRef, controller)]

\* PROVIDERS.map((p) => runProvider(p, question, controller.signal))
StartedRuns(question, controller) ==
  [i \in DOMAIN PROVIDERS |-> NewRun(PROVIDERS[i], question, controller, controller)]

\* The synchronous part of the four runProvider calls: their first patch.
RECURSIVE StartAll(_, _)
StartAll(states, i) ==
  IF i > Len(PROVIDERS) THEN states
  ELSE StartAll(patchProvider(states, PROVIDERS[i], StartPatch), i + 1)

\* A later submit or a reset supersedes every earlier call. Of a superseded
\* call that has returned only the fact that it returned is kept.
Returned ==
  [provider |-> "-", question |-> <<>>, signal |-> 0, batch |-> 0,
   content |-> <<>>, yielded |-> <<>>, status |-> "returned", superseded |-> TRUE]

Supersede(rs) ==
  [r \in DOMAIN rs |->
     IF rs[r].status = "streaming" THEN [rs[r] EXCEPT !.superseded = TRUE]
     ELSE Returned]

\* ------------------------------------------------ Index.tsx: the save effect
\* Object.values(providerStates).every((s) => s.isComplete)
allDone(states) == \A p \in Providers : states[p].isComplete

\* mutant: the effect does not look at savedRef
ShouldSaveUnguarded(states, question, saved) ==
  allDone(states) /\ question # <<>>

\* if (allDone && currentQuestion && savedRef.current !== currentQuestion)
ShouldSave(states, question, saved) ==
  allDone(states) /\ question # <<>> /\ saved # question

\* addConversation(question, providerStates): the call, with the controller of
\* the submission the question belongs to and the number of runProvider calls
\* made by then.
addConversation(question, states) ==
  Append(saves, [question |-> question, batch |-> abortRef', runs |-> Len(runs')])

\* The effect runs after every render in which providerStates or
\* currentQuestion changed, that is after every step of the hook.
SaveEffect ==
  IF ShouldSave(providerStates', currentQuestion', savedRef)
    THEN /\ savedRef' = currentQuestion'
         /\ saves' = addConversation(currentQuestion', providerStates')
    ELSE UNCHANGED <<savedRef, saves>>

\* mutant: a submit is accepted while another is in flight
SubmitGuardBlankOnly(question) == Trim(question) # <<>>

\* if (!question.trim() || isQuerying) return;
SubmitGuard(question) == ~(Trim(question) = <<>> \/ isQuerying)

submitQuestion(question) ==
  LET controller == nControllers + 1 IN
  /\ lastEvent' = [kind |-> "submit", run |-> 0, question |-> question]
  /\ IF ~SubmitGuard(question)
       THEN UNCHANGED <<providerStates, currentQuestion, isQuerying, abortRef,
                        nControllers, aborted, runs>>
       ELSE /\ aborted' = AbortCurrent
            /\ nControllers' = controller
            /\ abortRef' = controller
            /\ currentQuestion' = question
            /\ isQuerying' = TRUE
            /\ providerStates' = StartAll(makeInitialState(TRUE), 1)
            /\ runs' = Supersede(runs) \o StartedRuns(question, controller)
  /\ UNCHANGED <<mounted, chunksLeft>>
  /\ SaveEffect
  /\ UNCHANGED <<proxyVars, clientVars, sessionVars>>

\* mutant: the retry runs under the signal of a controller of its own
RetrySignalOwn == nControllers + 1

\* mutant: the retry runs under the signal of the controller before the current one
RetrySignalPrevious == IF abortRef = 0 THEN nControllers + 1 ELSE abortRef - 1

\* abortRef.current?.signal ?? new AbortController().signal
RetrySignal == IF abortRef = 0 THEN nControllers + 1 ELSE abortRef

\* if (!currentQuestion) return;
RetryGuard == currentQuestion # <<>>

\* mutant: a retry restarts the four sessions
retryRestartsAll(provider) ==
  /\ lastEvent' = [kind |-> "retry", run |-> 0, provider |-> provider]
  /\ IF ~RetryGuard
       THEN UNCHANGED <<providerStates, nControllers, runs>>
       ELSE /\ nControllers' = IF abortRef = 0 THEN nControllers + 1 ELSE nControllers
            /\ providerStates' = StartAll(providerStates, 1)
            /\ runs' = runs \o [i \in DOMAIN PROVIDERS |->
                                  NewRun(PROVIDERS[i], currentQuestion, RetrySignal, 0)]
  /\ UNCHANGED <<currentQuestion, isQuerying, abortRef, aborted, mounted, chunksLeft>>
  /\ SaveEffect
  /\ UNCHANGED <<proxyVars, clientVars, sessionVars>>

\* mutant: a retry raises the querying flag
retrySetsQuerying(provider) ==
  /\ lastEvent' = [kind |-> "retry", run |-> 0, provider |-> provider]
  /\ IF ~RetryGuard
       THEN UNCHANGED <<providerStates, nControllers, runs, isQuerying>>
       ELSE /\ nControllers' = IF abortRef = 0 THEN nControllers + 1 ELSE nControllers
            /\ providerStates' = patchProvider(providerStates, provider, StartPatch)
            /\ runs' = Append(runs, NewRun(provider, currentQuestion, RetrySignal, 0))
            /\ isQuerying' = TRUE
  /\ UNCHANGED <<currentQuestion, abortRef, aborted, mounted, chunksLeft>>
  /\ SaveEffect
  /\ UNCHANGED <<proxyVars, clientVars, sessionVars>>

retryProvider(provider) ==
  /\ lastEvent' = [kind |-> "retry", run |-> 0, provider |-> provider]
  /\ IF ~RetryGuard
       THEN UNCHANGED <<providerStates, nControllers, runs>>
       ELSE /\ nControllers' = IF abortRef = 0 THEN nControllers + 1 ELSE nControllers
            /\ providerStates' = patchProvider(providerStates, provider, StartPatch)
            /\ runs' = Append(runs, NewRun(provider, currentQuestion, RetrySignal, 0))
  /\ UNCHANGED <<currentQuestion, isQuerying, abortRef, aborted, mounted, chunksLeft>>
  /\ SaveEffect
  /\ UNCHANGED <<proxyVars, clientVars, sessionVars>>

\* mutant: a reset installs a fresh controller
resetRenewsController ==
  /\ aborted' = AbortCurrent
  /\ nControllers' = nControllers + 1
  /\ abortRef' = nControllers + 1
  /\ providerStates' = makeInitialState(FALSE)
  /\ currentQuestion' = <<>>
  /\ isQuerying' = FALSE
  /\ runs' = Supersede(runs)
  /\ lastEvent' = [kind |-> "reset", run |-> 0]
  /\ UNCHANGED <<mounted, chunksLeft>>
  /\ SaveEffect
  /\ UNCHANGED <<proxyVars, clientVars, sessionVars>>

resetResponses ==
  /\ aborted' = AbortCurrent
  /\ providerStates' = makeInitialState(FALSE)
  /\ currentQuestion' = <<>>
  /\ isQuerying' = FALSE
  /\ runs' = Supersede(runs)
  /\ lastEvent' = [kind |-> "reset", run |-> 0]
  /\ UNCHANGED <<abortRef, nControllers, mounted, chunksLeft>>
  /\ SaveEffect
  /\ UNCHANGED <<proxyVars, clientVars, sessionVars>>

\* The cleanup of the mount effect: () => abortRef.current?.abort()
Unmount ==
  /\ mounted
  /\ mounted' = FALSE
  /\ aborted' = AbortCurrent
  /\ lastEvent' = [kind |-> "unmount", run |-> 0]
  /\ UNCHANGED <<providerStates, currentQuestion, isQuerying, abortRef,
                 nControllers, runs, callsLeft, chunksLeft, savedRef, saves>>
  /\ UNCHANGED <<proxyVars, clientVars, sessionVars>>

\* await Promise.allSettled(...); if (!controller.signal.aborted) setIsQuerying(false)
\* runs in the microtasks of the step in which the last of the four calls returns.
\* mutant: the first call that returns ends the wait
SettledFirst(rs, batch) ==
  /\ batch # 0
  /\ \E r \in DOMAIN rs : rs[r].batch = batch /\ rs[r].status # "streaming"

Settled(rs, batch) ==
  /\ batch # 0
  /\ \A r \in DOMAIN rs : rs[r].batch = batch => rs[r].status # "streaming"

AfterAllSettled(rs, batch) ==
  IF Settled(rs, batch) /\ ~IsAborted(batch) THEN FALSE ELSE isQuerying

\* A call that returns because its signal is aborted: it has had no effect
\* and will have none, only how it ended is kept.
Cancelled(run) ==
  [run EXCEPT !.content = <<>>, !.yielded = <<>>, !.status = "cancelled"]

\* A runProvider call returns: its record and the state updates of the step.
Return(r, run, states) ==
  LET rs == [runs EXCEPT ![r] = run] IN
  /\ runs' = rs
  /\ providerStates' = states
  /\ isQuerying' = AfterAllSettled(rs, run.batch)

\* if (signal.aborted) return;   in the loop
LoopReturns(signal) == IsAborted(signal)

\* if (!signal.aborted) { ... }  after the loop
Completes(signal) == ~IsAborted(signal)

\* mutant: the catch reports every throw
CatchNeverReturns(signal) == FALSE

\* if (signal.aborted) return;   in the catch
CatchReturns(signal) == IsAborted(signal)

\* mutant: the chunk replaces the text
ChunkPatchReplaces(content) == [content |-> <<content[Len(content)]>>]

\* mutant: a chunk ends the streaming phase
ChunkPatchEnds(content) == [content |-> content, isStreaming |-> FALSE]

ChunkPatch(content) == [content |-> content]

\* for await (const chunk of stream) { if (signal.aborted) return; content += chunk; ... }
RunChunk(r) ==
  LET run == runs[r]
      chunk == <<r, Len(run.yielded) + 1>>
      content == Append(run.content, chunk)
  IN
  /\ Live(r)
  /\ chunksLeft > 0
  /\ chunksLeft' = chunksLeft - 1
  /\ IF LoopReturns(run.signal)
       THEN Return(r, Cancelled(run), providerStates)
       ELSE /\ runs' = [runs EXCEPT ![r].yielded = Append(@, chunk),
                                    ![r].content = content]
            /\ providerStates' =
                 patchProvider(providerStates, run.provider, ChunkPatch(content))
            /\ UNCHANGED isQuerying
  /\ lastEvent' = [kind |-> "chunk", run |-> r]
  /\ UNCHANGED <<currentQuestion, abortRef, nControllers, aborted, mounted, callsLeft>>
  /\ SaveEffect
  /\ UNCHANGED <<proxyVars, clientVars, sessionVars>>

\* new Date() is modelled by the run that took it (0 = null).
CompletePatch(r) == [isStreaming |-> FALSE, isComplete |-> TRUE, timestamp |-> r]

\* The stream is exhausted: if (!signal.aborted) patchProvider(... isComplete ...)
RunEnd(r) ==
  LET run == runs[r] IN
  /\ Live(r)
  /\ IF ~Completes(run.signal)
       THEN Return(r, Cancelled(run), providerStates)
       ELSE Return(r, [run EXCEPT !.status = "completed"],
                   patchProvider(providerStates, run.provider, CompletePatch(r)))
  /\ lastEvent' = [kind |-> "end", run |-> r]
  /\ UNCHANGED <<currentQuestion, abortRef, nControllers, aborted, mounted,
                 callsLeft, chunksLeft>>
  /\ SaveEffect
  /\ UNCHANGED <<proxyVars, clientVars, sessionVars>>

\* err instanceof Error ? err.message : 'Failed to get response'
ErrorMessage(err) == IF err.isError THEN err.message ELSE DefaultError

\* mutant: a failed session is not marked complete
ErrorPatchNotComplete(err) ==
  [isStreaming |-> FALSE, error |-> ErrorMessage(err)]

ErrorPatch(err) ==
  [isStreaming |-> FALSE, isComplete |-> TRUE, error |-> ErrorMessage(err)]

\* What the stream throws: an Error (failed fetch, non-2xx, error record,
\* failed read, AbortError of a cancelled fetch or read).
Thrown == {[isError |-> TRUE, message |-> StreamFailure]}

\* catch (err) { if (signal.aborted) return; patchProvider(... error ...) }
RunThrow(r, err) ==
  LET run == runs[r] IN
  /\ Live(r)
  /\ IF CatchReturns(run.signal)
       THEN Return(r, Cancelled(run), providerStates)
       ELSE Return(r, [run EXCEPT !.status = "errored"],
                   patchProvider(providerStates, run.provider, ErrorPatch(err)))
  /\ lastEvent' = [kind |-> "throw", run |-> r]
  /\ UNCHANGED <<currentQuestion, abortRef, nControllers, aborted, mounted,
                 callsLeft, chunksLeft>>
  /\ SaveEffect
  /\ UNCHANGED <<proxyVars, clientVars, sessionVars>>

\* ---------------------------------------------------------- the callers
\* An accepted call uses up one of the calls the behaviour may make.
Call == callsLeft > 0 /\ callsLeft' = callsLeft - 1

\* QuestionInput.handleSubmit: the Send button and the Enter key.
handleSubmit(question) ==
  /\ mounted
  /\ Call
  /\ Trim(question) # <<>> /\ ~isQuerying
  /\ submitQuestion(Trim(question))

\* Index.handleSelectQuestion: a question picked in the history sidebar.
handleSelectQuestion(question) ==
  /\ mounted
  /\ Call
  /\ submitQuestion(question)

\* AIResponseCard: the Retry button is rendered only under {error && ...}.
RetryButton(provider) ==
  /\ mounted
  /\ Call
  /\ providerStates[provider].error # NullError
  /\ retryProvider(provider)

\* const hasResponses = PROVIDERS.some((p) => content || error)
hasResponses ==
  \E p \in Providers :
    providerStates[p].content # <<>> \/ providerStates[p].error # NullError

\* QuestionInput.handleReset: the button is rendered under {hasResponses && ...}
\* and disabled while isQuerying.
handleReset ==
  /\ mounted
  /\ hasResponses /\ ~isQuerying
  /\ resetResponses
  /\ UNCHANGED callsLeft

Next ==
  \/ \E q \in Questions : handleSubmit(q)
  \/ \E q \in HistoryQuestions : handleSelectQuestion(q)
  \/ \E p \in Providers : RetryButton(p)
  \/ handleReset
  \/ \E r \in DOMAIN runs : RunChunk(r)
  \/ \E r \in DOMAIN runs : RunEnd(r)
  \/ \E r \in DOMAIN runs, err \in Thrown : RunThrow(r, err)

Spec == Init /\ [][Next]_vars

\* ------------------------------------------------- the page is left, too
\* One chunk less, and the component may unmount at any moment.
InitUnmount ==
  /\ Mounted
  /\ NoRequest
  /\ callsLeft = MaxCalls
  /\ chunksLeft = MaxChunks - 1

NextUnmount == Next \/ Unmount

SpecUnmount == InitUnmount /\ [][NextUnmount]_vars

\* ------------------------------------------- questions of different texts
\* The sidebar holds two questions, so that a question can follow itself or
\* the other one.
SidebarQuestions == {<<"x">>, <<"y">>}

NextSave ==
  \/ \E q \in Questions : handleSubmit(q)
  \/ \E q \in SidebarQuestions : handleSelectQuestion(q)
  \/ \E p \in Providers : RetryButton(p)
  \/ handleReset
  \/ \E r \in DOMAIN runs : RunChunk(r)
  \/ \E r \in DOMAIN runs : RunEnd(r)
  \/ \E r \in DOMAIN runs, err \in Thrown : RunThrow(r, err)

SpecSave == InitUnmount /\ [][NextSave]_vars

\* ------------------------------------------------ the page after a failure
\* The state in which the four streams of a first question have returned, the
\* first provider's with a failure and the others completed: the question is
\* recorded, its controller is in abortRef and not aborted.
FirstBatch == StartedRuns(<<"x">>, Len(<<"first">>))

AfterFailure ==
  /\ providerStates =
       [p \in Providers |->
          IF p = PROVIDERS[1]
            THEN Merge(Merge(entry(TRUE), StartPatch),
                       ErrorPatch([isError |-> TRUE, message |-> StreamFailure]))
            ELSE Merge(Merge(entry(TRUE), StartPatch),
                       CompletePatch(CHOOSE i \in DOMAIN PROVIDERS : PROVIDERS[i] = p))]
  /\ currentQuestion = <<"x">>
  /\ isQuerying = FALSE
  /\ abortRef = Len(<<"first">>)
  /\ nControllers = abortRef
  /\ aborted = {}
  /\ runs = [i \in DOMAIN PROVIDERS |->
               [FirstBatch[i] EXCEPT
                  !.status = IF i = 1 THEN "errored" ELSE "completed"]]
  /\ mounted = TRUE
  /\ lastEvent = [kind |-> "throw", run |-> 1]
  /\ savedRef = currentQuestion
  /\ saves = <<[question |-> currentQuestion, batch |-> abortRef,
                runs |-> Len(PROVIDERS)]>>

InitRetry ==
  /\ AfterFailure
  /\ NoRequest
  /\ callsLeft = MaxCalls
  /\ chunksLeft = MaxChunks - 1

SpecRetry == InitRetry /\ [][Next]_vars

\* ------------------------------------------- the hook called without the UI
\* The operations the hook returns, called in any order by any caller.
HookQuestions == {<<" ">>, <<"x">>}

SubmitCall(question) == mounted /\ Call /\ submitQuestion(question)

RetryCall(provider) == mounted /\ Call /\ retryProvider(provider)

ResetCall == mounted /\ Call /\ resetResponses

NextHook ==
  \/ \E q \in HookQuestions : SubmitCall(q)
  \/ \E p \in Providers : RetryCall(p)
  \/ ResetCall
  \/ Unmount
  \/ \E r \in DOMAIN runs : RunChunk(r)
  \/ \E r \in DOMAIN runs : RunEnd(r)
  \/ \E r \in DOMAIN runs, err \in Thrown : RunThrow(r, err)

\* One chunk less: the calls interleave with more streams here.
InitHook ==
  /\ Mounted
  /\ NoRequest
  /\ callsLeft = MaxCalls
  /\ chunksLeft = MaxChunks - 1

SpecHook == InitHook /\ [][NextHook]_vars

\* ------------------------------------------ the hook after a cancelled batch
\* The state a reset leaves once the four streams of a first question have
\* returned: its controller is aborted and still in abortRef.
AfterReset ==
  /\ providerStates = makeInitialState(FALSE)
  /\ currentQuestion = <<>>
  /\ isQuerying = FALSE
  /\ abortRef = Len(<<"first">>)
  /\ nControllers = abortRef
  /\ aborted = {abortRef}
  /\ runs = [i \in DOMAIN PROVIDERS |-> Returned]
  /\ mounted = TRUE
  /\ lastEvent = [kind |-> "reset", run |-> 0]
  /\ savedRef = <<>>
  /\ saves = <<>>

InitAgain ==
  /\ AfterReset
  /\ NoRequest
  /\ callsLeft = MaxCalls
  /\ chunksLeft = MaxChunks - 1

SpecAgain == InitAgain /\ [][NextHook]_vars

\* ================================================== stream-ai/index.ts
\* The upstream body is a sequence of atoms: the six characters "data: ",
\* single characters, the sentinel, and a JSON text in two pieces (its opening
\* with its content, and its closing brace), so that a read can end inside it.
Undefined == "undefined"

\* JSON values, by the fields the adapters look at.
NoFields ==
  [isNull |-> FALSE, choicesContent |-> Undefined, type |-> Undefined,
   deltaType |-> Undefined, deltaText |-> Undefined,
   errorMessage |-> Undefined, candidateText |-> Undefined,
   content |-> Undefined, message |-> <<>>]

\* The JSON texts of the model and the value each one parses to.
JsonText ==
  (<<"null">> :> [NoFields EXCEPT !.isNull = TRUE])
  @@ (<<"{choices:a", "}">> :> [NoFields EXCEPT !.choicesContent = "a"])
  @@ (<<"{choices:", "}">> :> [NoFields EXCEPT !.choicesContent = ""])
  @@ (<<"{error:m", "}">> :> [NoFields EXCEPT !.errorMessage = "m"])
  @@ (<<"{delta:a", "}">> :>
        [NoFields EXCEPT !.type = "content_block_delta",
                         !.deltaType = "text_delta", !.deltaText = "a"])
  @@ (<<"{stop", "}">> :> [NoFields EXCEPT !.type = "message_stop"])
  @@ (<<"{type-error:m", "}">> :>
        [NoFields EXCEPT !.type = "error", !.errorMessage = "m"])
  @@ (<<"{candidates:a", "}">> :> [NoFields EXCEPT !.candidateText = "a"])
  @@ (<<"{choices:b", "}">> :> [NoFields EXCEPT !.choicesContent = "b"])
  @@ (<<"{delta:b", "}">> :>
        [NoFields EXCEPT !.type = "content_block_delta",
                         !.deltaType = "text_delta", !.deltaText = "b"])
  @@ (<<"{candidates:b", "}">> :> [NoFields EXCEPT !.candidateText = "b"])
  @@ (<<"{delta:", "}">> :>
        [NoFields EXCEPT !.type = "content_block_delta",
                         !.deltaType = "text_delta", !.deltaText = ""])
  @@ (<<"{candidates:", "}">> :> [NoFields EXCEPT !.candidateText = ""])
  @@ (<<"{delta", "}">> :> [NoFields EXCEPT !.type = "content_block_delta"])
  @@ (<<"{chunk", "}">> :> [NoFields EXCEPT !.type = "chunk"])
  @@ (<<"{", "}">> :> NoFields)

\* mutant: a text that is not JSON parses to null
JSONparseNull(text) ==
  IF text \in DOMAIN JsonText
    THEN [ok |-> TRUE, value |-> JsonText[text]]
    ELSE [ok |-> TRUE, value |-> [NoFields EXCEPT !.isNull = TRUE]]

\* JSON.parse: the value, or a SyntaxError. The events of the outbound
\* protocol are `{chunk:` content `}` and `{error:` message `}`.
JSONparse(text) ==
  IF text \in DOMAIN JsonText
    THEN [ok |-> TRUE, value |-> JsonText[text]]
  ELSE IF Len(text) = 3 /\ text[1] = "{chunk:" /\ text[3] = "}"
    THEN [ok |-> TRUE,
          value |-> [NoFields EXCEPT !.type = "chunk", !.content = text[2]]]
  ELSE IF Len(text) >= 2 /\ text[1] = "{error:" /\ text[Len(text)] = "}"
    THEN [ok |-> TRUE,
          value |-> [NoFields EXCEPT !.type = "error",
                                     !.message = SubSeq(text, 2, Len(text) - 1)]]
  ELSE [ok |-> FALSE, value |-> NoFields]

\* mutant: only an absent value is refused
Defined(x) == x # Undefined

\* if (x): a string that is neither undefined nor empty
Truthy(x) == x # Undefined /\ x # ""

\* The records of the outbound body.
sseChunk(content) == [type |-> "chunk", content |-> content, message |-> <<>>]

sseDone == [type |-> "done", content |-> "", message |-> <<>>]

sseError(message) == [type |-> "error", content |-> "", message |-> message]

\* The lines an upstream sends (without their newline).
Lines ==
  { <<"data: ", "{choices:a", "}">>,
    <<"data: ", "{choices:", "}">>,
    <<"data: ", "{choices:a">>,
    <<"data: ", "{error:m", "}">>,
    <<"data: ", "[DONE]">>,
    <<"data: ", "[DONE]", "\r">>,
    <<"data: ", "{delta:a", "}">>,
    <<"data: ", "{stop", "}">>,
    <<"data: ", "{type-error:m", "}">>,
    <<"data: ", "{candidates:a", "}">>,
    <<"data: ", "null">>,
    <<>> }

\* What may follow the last newline of a body.
Tails == {<<>>, <<"data: ", "{choices:a", "}">>}

RECURSIVE Join(_)
Join(lines) ==
  IF lines = <<>> THEN <<>> ELSE Head(lines) \o <<"\n">> \o Join(Tail(lines))

Bodies ==
  {Join(lines) \o tail :
     lines \in UNION {[1..n -> Lines] : n \in 0..MaxLines}, tail \in Tails}

\* buf.split('\n'): the pieces between the newlines, the last one included.
RECURSIVE Split(_, _, _)
Split(s, piece, pieces) ==
  IF s = <<>> THEN Append(pieces, piece)
  ELSE IF Head(s) = "\n" THEN Split(Tail(s), <<>>, Append(pieces, piece))
  ELSE Split(Tail(s), Append(piece, Head(s)), pieces)

\* mutant: nothing is carried over to the next read
CarryNothing(pieces) == <<>>

\* buf = lines.pop() ?? '': the piece after the last newline
CarryOver(pieces) == pieces[Len(pieces)]

\* lines, once the last piece is popped
CompleteLines(pieces) == SubSeq(pieces, 1, Len(pieces) - 1)

\* The controller as the adapter's loop sees it: the records enqueued,
\* whether it is closed, and how the loop goes on (next, return, throw).
Controller(records, isClosed) ==
  [out |-> records, closed |-> isClosed, flow |-> "next", thrown |-> <<>>]

Throw(st, message) == [st EXCEPT !.flow = "throw", !.thrown = message]

\* mutant: a record is put in front of those enqueued before
EnqueueFirst(st, record) ==
  IF st.closed THEN Throw(st, <<"Invalid state">>)
  ELSE [st EXCEPT !.out = <<record>> \o @]

\* controller.enqueue and controller.close throw a TypeError once closed.
Enqueue(st, record) ==
  IF st.closed THEN Throw(st, <<"Invalid state">>)
  ELSE [st EXCEPT !.out = Append(@, record)]

Close(st) ==
  IF st.closed THEN Throw(st, <<"Invalid state">>)
  ELSE [st EXCEPT !.closed = TRUE]

\* mutant: the body is closed without a done record
CloseOnly(st) == Close(st)

\* controller.enqueue(enc.encode(sseDone())); controller.close();
Finish(st) ==
  LET s1 == Enqueue(st, sseDone) IN
  IF s1.flow = "throw" THEN s1 ELSE Close(s1)

\* mutant: the sentinel is forwarded, the loop goes on
ForwardAndGoOn(st) == Enqueue(st, sseDone)

\* ... Finish; return;
FinishAndReturn(st) ==
  LET s1 == Finish(st) IN
  IF s1.flow = "throw" THEN s1 ELSE [s1 EXCEPT !.flow = "return"]

\* line.startsWith('data: ')
StartsWithData(line) == line # <<>> /\ Head(line) = "data: "

\* line.slice(6).trim()
Payload(line) == Trim(Tail(line))

\* streamOpenAI, the body of the for loop
OpenAILine(st, line) ==
  IF ~StartsWithData(line) THEN st
  ELSE IF Payload(line) = <<"[DONE]">> THEN FinishAndReturn(st)
  ELSE LET parsed == JSONparse(Payload(line)) IN
       IF ~parsed.ok \/ parsed.value.isNull THEN st
       ELSE IF Truthy(parsed.value.choicesContent)
         THEN LET s1 == Enqueue(st, sseChunk(parsed.value.choicesContent)) IN
              IF s1.flow = "throw" THEN st ELSE s1
         ELSE st

\* streamAnthropic, the body of the for loop
AnthropicLine(st, line) ==
  IF ~StartsWithData(line) THEN st
  ELSE LET parsed == JSONparse(Payload(line))
           event == parsed.value
       IN
       IF ~parsed.ok THEN st
       ELSE IF event.isNull THEN Throw(st, <<"Cannot read properties of null">>)
       ELSE IF /\ event.type = "content_block_delta"
               /\ event.deltaType = "text_delta"
               /\ Truthy(event.deltaText)
         THEN Enqueue(st, sseChunk(event.deltaText))
       ELSE IF event.type = "message_stop" THEN FinishAndReturn(st)
       ELSE IF event.type = "error"
         THEN Throw(st, IF event.errorMessage = Undefined
                          THEN <<"Anthropic stream error">>
                          ELSE <<event.errorMessage>>)
       ELSE st

\* streamGemini, the body of the for loop
GeminiLine(st, line) ==
  IF ~StartsWithData(line) THEN st
  ELSE LET parsed == JSONparse(Payload(line)) IN
       IF ~parsed.ok THEN st
       ELSE IF Truthy(parsed.value.candidateText)
         THEN LET s1 == Enqueue(st, sseChunk(parsed.value.candidateText)) IN
              IF s1.flow = "throw" THEN st ELSE s1
         ELSE st

\* The switch of the handler: the adapter of each provider.
Adapter(provider) ==
  CASE provider = "chatgpt" -> "openai"
    [] provider = "perplexity" -> "openai"
    [] provider = "claude" -> "anthropic"
    [] provider = "gemini" -> "gemini"
    [] OTHER -> "unknown"

ErrorPrefix(adapter) ==
  CASE adapter = "openai" -> "OpenAI error "
    [] adapter = "anthropic" -> "Anthropic error "
    [] OTHER -> "Gemini error "

OnLine(adapter, st, line) ==
  CASE adapter = "openai" -> OpenAILine(st, line)
    [] adapter = "anthropic" -> AnthropicLine(st, line)
    [] OTHER -> GeminiLine(st, line)

\* for (const line of lines) { ... }
RECURSIVE ForLines(_, _, _)
ForLines(adapter, st, lines) ==
  IF lines = <<>> \/ st.flow # "next" THEN st
  ELSE ForLines(adapter, OnLine(adapter, st, Head(lines)), Tail(lines))

\* makeStream: generator(controller).catch((err) => { enqueue(sseError(msg));
\* close() }). A throw inside the catch is an unhandled rejection: nothing more
\* happens to the body.
Caught(st) ==
  LET s1 == Enqueue([st EXCEPT !.flow = "next"], sseError(st.thrown)) IN
  IF s1.flow = "throw" THEN st ELSE Close(s1)

\* The generator's promise settles: the body as it is left.
Settle(st) ==
  LET end == IF st.flow = "throw" THEN Caught(st) ELSE st IN
  /\ out' = end.out
  /\ closed' = end.closed
  /\ pc' = "finished"

Here == Controller(out, closed)

\* default: throw new Error(`Unknown provider: ${provider}`)
DispatchUnknown ==
  /\ pc = "dispatch"
  /\ Adapter(reqProvider) = "unknown"
  /\ Settle(Throw(Here, <<"Unknown provider: ", reqProvider>>))
  /\ UNCHANGED <<reqProvider, wire, buf, upstream>>
  /\ UNCHANGED <<hookVars, reqVars, clientVars, sessionVars>>

\* await fetch(...) rejects
FetchRejects ==
  /\ pc = "dispatch"
  /\ Adapter(reqProvider) # "unknown"
  /\ Settle(Throw(Here, <<"fetch failed">>))
  /\ upstream' = [NoUpstream EXCEPT !.kind = "rejected"]
  /\ UNCHANGED <<reqProvider, wire, buf>>
  /\ UNCHANGED <<hookVars, reqVars, clientVars, sessionVars>>

\* The non-2xx statuses and the body texts an upstream answers with.
Statuses == {"401", "500"}

Texts == {<<>>, <<"body">>}

\* mutant: the message carries the status only
NotOkStatusOnly(adapter, status, text) == <<ErrorPrefix(adapter), status>>

\* `OpenAI error ${res.status}: ${body}`
NotOkMessage(adapter, status, text) ==
  <<ErrorPrefix(adapter), status, ": ">> \o text

\* if (!res.ok) { const body = await res.text(); throw new Error(...) }
FetchNotOk(status, text) ==
  /\ pc = "dispatch"
  /\ Adapter(reqProvider) # "unknown"
  /\ Settle(Throw(Here, NotOkMessage(Adapter(reqProvider), status, text)))
  /\ upstream' = [NoUpstream EXCEPT !.kind = "status", !.status = status, !.text = text]
  /\ UNCHANGED <<reqProvider, wire, buf>>
  /\ UNCHANGED <<hookVars, reqVars, clientVars, sessionVars>>

\* The upstream answers 2xx; its body is read from res.body.getReader().
FetchOk(bytes) ==
  /\ pc = "dispatch"
  /\ Adapter(reqProvider) # "unknown"
  /\ pc' = "read"
  /\ wire' = bytes
  /\ buf' = <<>>
  /\ upstream' = [NoUpstream EXCEPT !.kind = "ok", !.status = "200"]
  /\ UNCHANGED <<reqProvider, out, closed>>
  /\ UNCHANGED <<hookVars, reqVars, clientVars, sessionVars>>

\* One turn of while (true): reader.read() delivers the next k atoms.
Read(k) ==
  LET pieces == Split(buf \o SubSeq(wire, 1, k), <<>>, <<>>)
      lines == CompleteLines(pieces)
      st == ForLines(Adapter(reqProvider), Here, lines)
  IN
  /\ pc = "read"
  /\ k \in 1..Len(wire)
  /\ wire' = SubSeq(wire, k + 1, Len(wire))
  /\ buf' = CarryOver(pieces)
  /\ IF st.flow = "next"
       THEN out' = st.out /\ closed' = st.closed /\ pc' = "read"
       ELSE Settle(st)
  /\ UNCHANGED <<reqProvider, upstream>>
  /\ UNCHANGED <<hookVars, reqVars, clientVars, sessionVars>>

\* reader.read() reports done: break; then Finish.
ReadDone ==
  /\ pc = "read"
  /\ wire = <<>>
  /\ Settle(Finish(Here))
  /\ UNCHANGED <<reqProvider, wire, buf, upstream>>
  /\ UNCHANGED <<hookVars, reqVars, clientVars, sessionVars>>

\* reader.read() rejects: the connection to the upstream broke.
ReadRejects ==
  /\ pc = "read"
  /\ Settle(Throw(Here, <<"read failed">>))
  /\ upstream' = [upstream EXCEPT !.kind = "broken"]
  /\ UNCHANGED <<reqProvider, wire, buf>>
  /\ UNCHANGED <<hookVars, reqVars, clientVars, sessionVars>>

\* The longest body: MaxLines lines of three atoms and a newline, and a tail.
MaxBody == 4 * MaxLines + 3

\* --------------------------------------------- stream-ai: the Deno.serve handler
\* JSON.stringify of an event of the outbound protocol.
JSONstringify(event) ==
  CASE event.type = "chunk" -> <<"{chunk:", event.content, "}">>
    [] event.type = "error" -> <<"{error:">> \o event.message \o <<"}">>
    [] OTHER -> <<"{", "}">>

\* The text of a record of the outbound body:
\* `data: ${JSON.stringify(...)}\n\n` and `data: [DONE]\n\n`
Frame(record) ==
  <<"data: ">>
    \o (IF record.type = "done" THEN <<"[DONE]">> ELSE JSONstringify(record))
    \o <<"\n", "\n">>

Methods == {"OPTIONS", "GET", "POST"}

\* No key: the null of getUserApiKey, an environment variable that is not set.
NoKey == ""

\* mutant: only the provider is required
ValidProviderOnly(provider, question) == Truthy(provider)

\* if (!provider || !question) return ... 400
Valid(provider, question) == Truthy(provider) /\ Truthy(question)

\* `No API key configured for ${provider}. Add yours in Settings -> API Keys.`
NoKeyMessage(provider) ==
  <<"No API key configured for ", provider, ". Add yours in Settings">>

\* return new Response(text, { status, headers: { 'Content-Type': type } })
Answer(status, type, text) ==
  /\ response' = [status |-> status, type |-> type, text |-> text]
  /\ pc' = "answered"

\* The handler from the method checks to the validation of the body.
Serve ==
  /\ pc = "request"
  /\ IF request.method = "OPTIONS" THEN Answer(200, "", <<>>)
     ELSE IF request.method # "POST"
       THEN Answer(405, "text/plain", <<"Method not allowed">>)
     ELSE IF ~request.json
       THEN Answer(500, "text/event-stream", Frame(sseError(<<"Unexpected token">>)))
     ELSE IF ~Valid(reqProvider, request.question)
       THEN Answer(400, "text/plain", <<"Missing provider or question">>)
     ELSE pc' = "resolve" /\ UNCHANGED response
  /\ UNCHANGED <<reqProvider, wire, buf, out, closed, request, storedKey, envKey,
                 userKey, apiKey, messages, lookups, upstream>>
  /\ UNCHANGED <<hookVars, clientVars, sessionVars>>

\* getUserApiKey: if (error || !data) return null; return data
getUserApiKey(rpc) == IF rpc = "error" \/ ~Truthy(storedKey) THEN NoKey ELSE storedKey

\* Deno.env.get(envKeyMap[provider]); for a provider that is not in the map
\* the name is undefined: the call throws or finds nothing.
EnvGet == {"throws", "value"}

\* mutant: the environment variable comes first
EnvFirst(key, fallback) == IF fallback # NoKey THEN fallback ELSE key

\* key ?? fallback
Coalesce(key, fallback) == IF key # NoKey THEN key ELSE fallback

\* const { provider, question, conversationHistory = [] } = body
History(req) == IF req.hasHistory THEN req.history ELSE <<>>

\* mutant: the new question comes first
MessagesQuestionFirst(history, question) ==
  <<[role |-> "user", content |-> question]>> \o history

\* [...conversationHistory, { role: 'user', content: question }]
Messages(history, question) ==
  Append(history, [role |-> "user", content |-> question])

\* const userKey = await getUserApiKey(...); const apiKey = userKey ?? Deno.env.get(...);
\* if (!apiKey) return ... 400; const messages = ...; return new Response(stream, ...)
Resolve(rpc, envGet) ==
  LET known == Adapter(reqProvider) # "unknown"
      key == Coalesce(getUserApiKey(rpc), IF known THEN envKey ELSE NoKey)
  IN
  /\ pc = "resolve"
  /\ lookups' = lookups + 1
  /\ userKey' = getUserApiKey(rpc)
  /\ IF userKey' = NoKey /\ ~known /\ envGet = "throws"
       THEN /\ Answer(500, "text/event-stream", Frame(sseError(<<"Invalid key">>)))
            /\ UNCHANGED <<apiKey, messages>>
     ELSE IF ~Truthy(key)
       THEN /\ Answer(400, "application/json",
                      JSONstringify(sseError(NoKeyMessage(reqProvider))))
            /\ UNCHANGED <<apiKey, messages>>
     ELSE /\ apiKey' = key
          /\ messages' = Messages(History(request), request.question)
          /\ response' = [status |-> 200, type |-> "text/event-stream", text |-> <<>>]
          /\ pc' = "dispatch"
  /\ UNCHANGED <<reqProvider, wire, buf, out, closed, request, storedKey, envKey,
                 upstream>>
  /\ UNCHANGED <<hookVars, clientVars, sessionVars>>

\* A request for which the handler has returned the streaming Response.
Dispatched ==
  /\ request = [method |-> "POST", json |-> TRUE, question |-> "x",
                hasHistory |-> FALSE, history |-> <<>>]
  /\ storedKey = "u"
  /\ envKey = NoKey
  /\ userKey = storedKey
  /\ apiKey = storedKey
  /\ messages = <<[role |-> "user", content |-> "x"]>>
  /\ response = [status |-> 200, type |-> "text/event-stream", text |-> <<>>]
  /\ lookups = Len(<<storedKey>>)

\* The prior turns of a follow-up: a question and its answer.
PriorTurns ==
  <<[role |-> "user", content |-> "q"], [role |-> "assistant", content |-> "r"]>>

\* A request arrives.
InitServe ==
  /\ Mounted
  /\ callsLeft = 0
  /\ chunksLeft = 0
  /\ reqProvider \in Providers \cup {"other", "", Undefined}
  /\ pc = "request"
  /\ wire = <<>>
  /\ buf = <<>>
  /\ out = <<>>
  /\ closed = FALSE
  /\ request \in [method : Methods, json : BOOLEAN, question : {Undefined, "", "x"},
                  hasHistory : {FALSE}, history : {<<>>}]
               \cup [method : Methods, json : BOOLEAN, question : {Undefined, "", "x"},
                      hasHistory : {TRUE}, history : {PriorTurns}]
  /\ storedKey \in {NoKey, "u"}
  /\ envKey \in {NoKey, "e"}
  /\ userKey = NoKey
  /\ apiKey = NoKey
  /\ messages = <<>>
  /\ response = NoResponse
  /\ lookups = 0
  /\ upstream = NoUpstream
  /\ NoStream
  /\ NoSession

InitProxy ==
  /\ Mounted
  /\ callsLeft = 0
  /\ chunksLeft = 0
  /\ reqProvider \in Providers \cup {"other"}
  /\ pc = "dispatch"
  /\ wire = <<>>
  /\ buf = <<>>
  /\ out = <<>>
  /\ closed = FALSE
  /\ Dispatched
  /\ upstream = NoUpstream
  /\ NoStream
  /\ NoSession

NextProxy ==
  \/ DispatchUnknown
  \/ FetchRejects
  \/ \E status \in Statuses, text \in Texts : FetchNotOk(status, text)
  \/ \E bytes \in Bodies : FetchOk(bytes)
  \/ \E k \in 1..MaxBody : Read(k)
  \/ ReadDone
  \/ ReadRejects

SpecProxy == InitProxy /\ [][NextProxy]_vars

\* ================================================ aiService.ts: realStream
\* The lines of a body of stream-ai (without their newline): the records of
\* the outbound protocol, and what is not one.
ClientLines ==
  { <<"data: ", "{chunk:", "a", "}">>,
    <<"data: ", "{chunk:", "", "}">>,
    <<"data: ", "{chunk:", "a">>,
    <<"data: ", "{error:", "m", "}">>,
    <<"data: ", "[DONE]">>,
    <<"data: ", "null">>,
    <<>> }

ClientTails == {<<>>, <<"data: ", "{chunk:", "a", "}">>}

ClientBodies ==
  {Join(lines) \o tail :
     lines \in UNION {[1..n -> ClientLines] : n \in 0..MaxLines}, tail \in ClientTails}

\* The longest of them: MaxLines lines of four atoms and a newline, and a tail.
MaxClientBody == 5 * MaxLines + 4

\* The generator as its loop sees it: the chunks yielded, and how the loop
\* goes on (next, return, throw).
Generator(yielded) == [tokens |-> yielded, flow |-> "next", thrown |-> <<>>]

\* mutant: the [DONE] line is not looked for
StreamLineNoSentinel(st, line) ==
  IF ~StartsWithData(line) THEN st
  ELSE LET parsed == JSONparse(Payload(line))
           event == parsed.value
       IN
       IF ~parsed.ok THEN st
       ELSE IF event.isNull THEN Throw(st, <<"Cannot read properties of null">>)
       ELSE IF event.type = "chunk" /\ Truthy(event.content)
         THEN [st EXCEPT !.tokens = Append(@, event.content)]
       ELSE IF event.type = "error" THEN Throw(st, event.message)
       ELSE st

\* realStream, the body of the for loop
StreamLine(st, line) ==
  IF ~StartsWithData(line) THEN st
  ELSE IF Payload(line) = <<"[DONE]">> THEN [st EXCEPT !.flow = "return"]
  ELSE LET parsed == JSONparse(Payload(line))
           event == parsed.value
       IN
       IF ~parsed.ok THEN st
       ELSE IF event.isNull THEN Throw(st, <<"Cannot read properties of null">>)
       ELSE IF event.type = "chunk" /\ Truthy(event.content)
         THEN [st EXCEPT !.tokens = Append(@, event.content)]
       ELSE IF event.type = "error" THEN Throw(st, event.message)
       ELSE st

RECURSIVE StreamLines(_, _)
StreamLines(st, lines) ==
  IF lines = <<>> \/ st.flow # "next" THEN st
  ELSE StreamLines(StreamLine(st, Head(lines)), Tail(lines))

\* The generator returns or throws: what its consumer has seen.
StreamSettle(st) ==
  /\ tokens' = st.tokens
  /\ failure' = st.thrown
  /\ stage' = IF st.flow = "throw" THEN "threw" ELSE "returned"

\* What a fetch or a read rejects with: an AbortError once the signal given to
\* fetch is aborted.
Rejection(message) == IF cancelled THEN <<"AbortError">> ELSE message

\* await fetch(url, ...) rejects
StreamFetchRejects ==
  /\ stage = "fetch"
  /\ StreamSettle(Throw(Generator(tokens), Rejection(<<"fetch failed">>)))
  /\ fetched' = [NoUpstream EXCEPT !.kind = "rejected"]
  /\ UNCHANGED <<body, buffer, cancelled>>
  /\ UNCHANGED <<hookVars, proxyVars, sessionVars>>

\* response.text(), or `HTTP ${response.status}` when it is empty
NotOkText(status, text) == IF text # <<>> THEN text ELSE <<"HTTP ", status>>

\* if (!response.ok) { const body = await response.text()...; throw new Error(body || ...) }
StreamNotOk(status, text) ==
  /\ stage = "fetch"
  /\ ~cancelled
  /\ StreamSettle(Throw(Generator(tokens), NotOkText(status, text)))
  /\ fetched' = [NoUpstream EXCEPT !.kind = "status", !.status = status, !.text = text]
  /\ UNCHANGED <<body, buffer, cancelled>>
  /\ UNCHANGED <<hookVars, proxyVars, sessionVars>>

\* if (!response.body) throw new Error('No response body from stream-ai')
StreamNoBody ==
  /\ stage = "fetch"
  /\ ~cancelled
  /\ StreamSettle(Throw(Generator(tokens), <<"No response body from stream-ai">>))
  /\ fetched' = [NoUpstream EXCEPT !.kind = "nobody", !.status = "200"]
  /\ UNCHANGED <<body, buffer, cancelled>>
  /\ UNCHANGED <<hookVars, proxyVars, sessionVars>>

\* The proxy answers 2xx; its body is read from response.body.getReader().
StreamOk(bytes) ==
  /\ stage = "fetch"
  /\ ~cancelled
  /\ stage' = "read"
  /\ body' = bytes
  /\ buffer' = <<>>
  /\ fetched' = [NoUpstream EXCEPT !.kind = "ok", !.status = "200"]
  /\ UNCHANGED <<tokens, failure, cancelled>>
  /\ UNCHANGED <<hookVars, proxyVars, sessionVars>>

\* One turn of while (true): reader.read() delivers the next k atoms.
StreamRead(k) ==
  LET pieces == Split(buffer \o SubSeq(body, 1, k), <<>>, <<>>)
      st == StreamLines(Generator(tokens), CompleteLines(pieces))
  IN
  /\ stage = "read"
  /\ ~cancelled
  /\ k \in 1..Len(body)
  /\ body' = SubSeq(body, k + 1, Len(body))
  /\ buffer' = CarryOver(pieces)
  /\ IF st.flow = "next"
       THEN tokens' = st.tokens /\ UNCHANGED <<stage, failure>>
       ELSE StreamSettle(st)
  /\ UNCHANGED <<fetched, cancelled>>
  /\ UNCHANGED <<hookVars, proxyVars, sessionVars>>

\* mutant: the end of the body without a terminal record is a failure
StreamReadDoneThrows ==
  /\ stage = "read"
  /\ ~cancelled
  /\ body = <<>>
  /\ StreamSettle(Throw(Generator(tokens), <<"stream ended">>))
  /\ UNCHANGED <<fetched, body, buffer, cancelled>>
  /\ UNCHANGED <<hookVars, proxyVars, sessionVars>>

\* reader.read() reports done: break; the generator returns.
StreamReadDone ==
  /\ stage = "read"
  /\ ~cancelled
  /\ body = <<>>
  /\ StreamSettle(Generator(tokens))
  /\ UNCHANGED <<fetched, body, buffer, cancelled>>
  /\ UNCHANGED <<hookVars, proxyVars, sessionVars>>

\* reader.read() rejects: the connection to the proxy broke.
StreamReadRejects ==
  /\ stage = "read"
  /\ StreamSettle(Throw(Generator(tokens), Rejection(<<"read failed">>)))
  /\ fetched' = [fetched EXCEPT !.kind = "broken"]
  /\ UNCHANGED <<body, buffer, cancelled>>
  /\ UNCHANGED <<hookVars, proxyVars, sessionVars>>

\* realStream is called: its fetch is on its way.
InitStream ==
  /\ Mounted
  /\ callsLeft = 0
  /\ chunksLeft = 0
  /\ NoProxyRequest
  /\ NoSession
  /\ stage = "fetch"
  /\ fetched = NoUpstream
  /\ body = <<>>
  /\ buffer = <<>>
  /\ tokens = <<>>
  /\ failure = <<>>
  /\ cancelled = FALSE

NextStream ==
  \/ StreamFetchRejects
  \/ \E status \in Statuses \cup {"400"}, text \in Texts : StreamNotOk(status, text)
  \/ StreamNoBody
  \/ \E bytes \in ClientBodies : StreamOk(bytes)
  \/ \E k \in 1..MaxClientBody : StreamRead(k)
  \/ StreamReadDone
  \/ StreamReadRejects

\* ------------------------------------- runProvider consuming realStream
\* The first of the four runProvider calls of a submit, with the realStream
\* call it iterates over. The generator is shown running ahead of its
\* consumer: for await takes the chunks it has yielded in order, then sees it
\* return or throw. The streams of the other three calls stay silent.
ConsumedRun == Len(<<"first">>)

\* for await (const chunk of stream): the next chunk the generator yielded
ConsumeChunk ==
  /\ Len(runs[ConsumedRun].yielded) < Len(tokens)
  /\ RunChunk(ConsumedRun)

\* the generator has returned and every chunk is taken: the loop is over
ConsumeEnd ==
  /\ stage = "returned"
  /\ Len(runs[ConsumedRun].yielded) = Len(tokens)
  /\ RunEnd(ConsumedRun)

\* the generator has thrown and every chunk is taken: the catch runs
ConsumeThrow ==
  /\ stage = "threw"
  /\ Len(runs[ConsumedRun].yielded) = Len(tokens)
  /\ \E err \in Thrown : RunThrow(ConsumedRun, err)

\* submitQuestion("x") has been accepted, and the fetch of the first call has
\* been answered 2xx; the response keeps the text of its whole body.
InitConsume ==
  /\ providerStates = StartAll(makeInitialState(TRUE), 1)
  /\ currentQuestion = <<"x">>
  /\ isQuerying = TRUE
  /\ abortRef = ConsumedRun
  /\ nControllers = abortRef
  /\ aborted = {}
  /\ runs = FirstBatch
  /\ mounted = TRUE
  /\ lastEvent = [kind |-> "submit", run |-> 0, question |-> currentQuestion]
  /\ savedRef = <<>>
  /\ saves = <<>>
  /\ callsLeft = 0
  /\ chunksLeft = MaxChunks
  /\ NoProxyRequest
  /\ NoSession
  /\ stage = "read"
  /\ body \in ClientBodies
  /\ fetched = [NoUpstream EXCEPT !.kind = "ok", !.status = "200", !.text = body]
  /\ buffer = <<>>
  /\ tokens = <<>>
  /\ failure = <<>>
  /\ cancelled = FALSE

NextConsume ==
  \/ \E k \in 1..MaxClientBody : StreamRead(k)
  \/ StreamReadDone
  \/ StreamReadRejects
  \/ ConsumeChunk
  \/ ConsumeEnd
  \/ ConsumeThrow

SpecConsume == InitConsume /\ [][NextConsume]_vars

\* ----------------------------------------------- streamAIResponse, both modes
\* The tokens of a mock response: text.split(/(\s+)/).
mockResponses == {<<"Great", " ", "question!">>}

\* The caller aborts the signal it passed in options.
SignalAbort ==
  /\ stage \in {"fetch", "read", "mock"}
  /\ ~cancelled
  /\ cancelled' = TRUE
  /\ UNCHANGED <<stage, fetched, body, buffer, tokens, failure>>
  /\ UNCHANGED <<hookVars, proxyVars, sessionVars>>

\* mockStream: await sleep(...); yield token. The generator has no signal
\* parameter, so nothing here looks at the cancellation.
MockYield ==
  /\ stage = "mock"
  /\ body # <<>>
  /\ tokens' = Append(tokens, Head(body))
  /\ body' = Tail(body)
  /\ UNCHANGED <<stage, fetched, buffer, failure, cancelled>>
  /\ UNCHANGED <<hookVars, proxyVars, sessionVars>>

\* mockStream: the for loop is over, the generator returns
MockReturn ==
  /\ stage = "mock"
  /\ body = <<>>
  /\ StreamSettle(Generator(tokens))
  /\ UNCHANGED <<fetched, body, buffer, cancelled>>
  /\ UNCHANGED <<hookVars, proxyVars, sessionVars>>

\* streamAIResponse returns mockStream(provider) when !useReal
InitMock ==
  /\ Mounted
  /\ callsLeft = 0
  /\ chunksLeft = 0
  /\ NoProxyRequest
  /\ NoSession
  /\ stage = "mock"
  /\ fetched = NoUpstream
  /\ body \in mockResponses
  /\ buffer = <<>>
  /\ tokens = <<>>
  /\ failure = <<>>
  /\ cancelled = FALSE

\* streamAIResponse: realStream when useReal, mockStream otherwise
InitOpen == InitStream \/ InitMock

NextOpen ==
  \/ NextStream
  \/ SignalAbort
  \/ MockYield
  \/ MockReturn

SpecOpen == InitOpen /\ [][NextOpen]_vars

\* ----------------------------------------- both ends of the wire, one at a time
\* Either a request at the proxy, from the dispatch to its adapter on, or a
\* realStream call.
InitWire == InitProxy \/ InitStream

NextWire == NextProxy \/ NextStream

SpecWire == InitWire /\ [][NextWire]_vars

\* ------------------------------------- a malformed record between two chunks
\* chunk a, a text that is not JSON, chunk b, [DONE]: in the dialect of each
\* adapter, and in that of the outbound protocol.
Sample(adapter) ==
  CASE adapter = "openai" ->
         Join(<< <<"data: ", "{choices:a", "}">>, <<"data: ", "{choices:a">>,
                 <<"data: ", "{choices:b", "}">>, <<"data: ", "[DONE]">> >>)
    [] adapter = "anthropic" ->
         Join(<< <<"data: ", "{delta:a", "}">>, <<"data: ", "{delta:a">>,
                 <<"data: ", "{delta:b", "}">>, <<"data: ", "[DONE]">> >>)
    [] adapter = "gemini" ->
         Join(<< <<"data: ", "{candidates:a", "}">>, <<"data: ", "{candidates:a">>,
                 <<"data: ", "{candidates:b", "}">>, <<"data: ", "[DONE]">> >>)
    [] OTHER ->
         Join(<< <<"data: ", "{chunk:", "a", "}">>, <<"data: ", "{chunk:", "a">>,
                 <<"data: ", "{chunk:", "b", "}">>, <<"data: ", "[DONE]">> >>)

\* The adapter has fetched such a body, or realStream has.
InitSample ==
  \/ /\ Mounted
     /\ callsLeft = 0
     /\ chunksLeft = 0
     /\ reqProvider \in Providers
     /\ pc = "read"
     /\ wire = Sample(Adapter(reqProvider))
     /\ buf = <<>>
     /\ out = <<>>
     /\ closed = FALSE
     /\ Dispatched
     /\ upstream = [NoUpstream EXCEPT !.kind = "ok", !.status = "200"]
     /\ NoStream
     /\ NoSession
  \/ /\ Mounted
     /\ callsLeft = 0
     /\ chunksLeft = 0
     /\ NoProxyRequest
     /\ NoSession
     /\ stage = "read"
     /\ fetched = [NoUpstream EXCEPT !.kind = "ok", !.status = "200"]
     /\ body = Sample("client")
     /\ buffer = <<>>
     /\ tokens = <<>>
     /\ failure = <<>>
     /\ cancelled = FALSE

\* realStream returns at the [DONE] line, so it never sees the end of this body.
NextSample ==
  \/ \E k \in 1..Len(Sample("client")) : Read(k)
  \/ ReadDone
  \/ ReadRejects
  \/ \E k \in 1..Len(Sample("client")) : StreamRead(k)
  \/ StreamReadRejects

SpecSample == InitSample /\ [][NextSample]_vars

\* ----------------------------------------- records that carry no text delta
\* chunk a, a record whose text is empty, a record without text, chunk b, and
\* then the end of the body: in the dialect of each adapter, and in that of
\* the outbound protocol.
TextlessSample(adapter) ==
  CASE adapter = "openai" ->
         Join(<< <<"data: ", "{choices:a", "}">>, <<"data: ", "{choices:", "}">>,
                 <<"data: ", "{", "}">>, <<"data: ", "{choices:b", "}">> >>)
    [] adapter = "anthropic" ->
         Join(<< <<"data: ", "{delta:a", "}">>, <<"data: ", "{delta:", "}">>,
                 <<"data: ", "{delta", "}">>, <<"data: ", "{delta:b", "}">> >>)
    [] adapter = "gemini" ->
         Join(<< <<"data: ", "{candidates:a", "}">>, <<"data: ", "{candidates:", "}">>,
                 <<"data: ", "{", "}">>, <<"data: ", "{candidates:b", "}">> >>)
    [] OTHER ->
         Join(<< <<"data: ", "{chunk:", "a", "}">>, <<"data: ", "{chunk:", "", "}">>,
                 <<"data: ", "{chunk", "}">>, <<"data: ", "{chunk:", "b", "}">> >>)

\* The adapter has fetched such a body, or realStream has.
InitTextless ==
  \/ /\ Mounted
     /\ callsLeft = 0
     /\ chunksLeft = 0
     /\ reqProvider \in Providers
     /\ pc = "read"
     /\ wire = TextlessSample(Adapter(reqProvider))
     /\ buf = <<>>
     /\ out = <<>>
     /\ closed = FALSE
     /\ Dispatched
     /\ upstream = [NoUpstream EXCEPT !.kind = "ok", !.status = "200"]
     /\ NoStream
     /\ NoSession
  \/ /\ Mounted
     /\ callsLeft = 0
     /\ chunksLeft = 0
     /\ NoProxyRequest
     /\ NoSession
     /\ stage = "read"
     /\ fetched = [NoUpstream EXCEPT !.kind = "ok", !.status = "200"]
     /\ body = TextlessSample("client")
     /\ buffer = <<>>
     /\ tokens = <<>>
     /\ failure = <<>>
     /\ cancelled = FALSE

NextTextless ==
  \/ \E k \in 1..Len(TextlessSample("client")) : Read(k)
  \/ ReadDone
  \/ ReadRejects
  \/ \E k \in 1..Len(TextlessSample("client")) : StreamRead(k)
  \/ StreamReadDone
  \/ StreamReadRejects

SpecTextless == InitTextless /\ [][NextTextless]_vars

NextServe ==
  \/ Serve
  \/ \E rpc \in {"data", "error"}, envGet \in EnvGet : Resolve(rpc, envGet)
  \/ NextProxy

SpecServe == InitServe /\ [][NextServe]_vars

\* ============================================== FocusedConversation.tsx
\* The content of a turn is a sequence: the characters of a user message, the
\* chunks of an answer, or the one piece of the failure notice.
FailureNotice == <<"Sorry, something went wrong. Please try again.">>

\* const { provider, originalQuestion, initialResponse } = session
originalQuestion == <<"q">>

initialResponse == <<"r">>

\* A Message; timestamp: new Date() is "created" until the turn is stamped again.
Turn(id, role, content) ==
  [id |-> id, role |-> role, content |-> content, timestamp |-> "created"]

\* useState<Message[]>(() => [ ... ]): the original question and its answer
Seed(question, answer) ==
  <<Turn(1, "user", question), Turn(2, "assistant", answer)>>

SeedMessages == Seed(originalQuestion, initialResponse)

\* crypto.randomUUID(): an id no turn has yet; turns are only ever appended
NewId(msgs, k) == Len(msgs) + k

\* controller.signal.aborted
SessionSignalAborted(e) == exchanges[e].controller \in sessionAborted

Pending(e) == exchanges[e].status = "streaming"

\* mutant: a send is refused only when its text is blank
SendGuardBlankOnly(text) == Trim(text) # <<>>

\* if (!text.trim() || isStreaming) return;
SendGuard(text) == Trim(text) # <<>> /\ ~sessionStreaming

\* abortRef.current?.abort()
SessionAbortCurrent ==
  IF sessionAbortRef = 0 THEN sessionAborted ELSE sessionAborted \cup {sessionAbortRef}

sendMessage(text) ==
  LET controller == sessionControllers + 1
      userMsg == Turn(NewId(sessionMessages, 1), "user", Trim(text))
      assistantId == NewId(sessionMessages, 2)
      assistantMsg == Turn(assistantId, "assistant", <<>>)
  IN
  /\ sessionEvent' = [kind |-> "send", exchange |-> 0, text |-> text]
  /\ IF ~SendGuard(text)
       THEN UNCHANGED <<sessionMessages, sessionInput, sessionStreamingId,
                        sessionStreaming, sessionAbortRef, sessionControllers,
                        sessionAborted, exchanges>>
       ELSE /\ sessionAborted' = SessionAbortCurrent
            /\ sessionControllers' = controller
            /\ sessionAbortRef' = controller
            /\ sessionMessages' = sessionMessages \o <<userMsg, assistantMsg>>
            /\ sessionInput' = <<>>
            /\ sessionStreamingId' = assistantId
            /\ sessionStreaming' = TRUE
            /\ exchanges' =
                 Append(exchanges,
                        [controller |-> controller, assistantId |-> assistantId,
                         question |-> Trim(text),
                         history |-> Append(sessionMessages, userMsg),
                         chunks |-> <<>>, content |-> <<>>, status |-> "streaming"])
  /\ UNCHANGED <<sessionMounted, deltasLeft>>
  /\ UNCHANGED <<hookVars, proxyVars, clientVars>>

\* A call of sendMessage, whatever the controls of the page allow.
SendCall(text) ==
  /\ sessionMounted
  /\ sendsLeft > 0
  /\ sendsLeft' = sendsLeft - 1
  /\ sendMessage(text)

\* onChange={(e) => setInput(e.target.value)}, the textarea disabled={isStreaming}
setInput(text) ==
  /\ sessionMounted
  /\ ~sessionStreaming
  /\ text # sessionInput
  /\ sessionInput' = text
  /\ sessionEvent' = [kind |-> "input", exchange |-> 0]
  /\ UNCHANGED <<sessionMessages, sessionStreamingId, sessionStreaming,
                 sessionAbortRef, sessionControllers, sessionAborted, exchanges,
                 sessionMounted, sendsLeft, deltasLeft>>
  /\ UNCHANGED <<hookVars, proxyVars, clientVars>>

\* useEffect(() => { return () => abortRef.current?.abort(); }, [])
SessionUnmount ==
  /\ sessionMounted
  /\ sessionMounted' = FALSE
  /\ sessionAborted' = SessionAbortCurrent
  /\ sessionEvent' = [kind |-> "unmount", exchange |-> 0]
  /\ UNCHANGED <<sessionMessages, sessionInput, sessionStreamingId, sessionStreaming,
                 sessionAbortRef, sessionControllers, exchanges, sendsLeft,
                 deltasLeft>>
  /\ UNCHANGED <<hookVars, proxyVars, clientVars>>

\* prev.map((m) => (m.id === assistantId ? { ...m, content } : m))
SetContent(msgs, id, content) ==
  [i \in DOMAIN msgs |->
     IF msgs[i].id = id THEN [msgs[i] EXCEPT !.content = content] ELSE msgs[i]]

\* prev.map((m) => (m.id === assistantId ? { ...m, timestamp: new Date() } : m))
SetTimestamp(msgs, id) ==
  [i \in DOMAIN msgs |->
     IF msgs[i].id = id THEN [msgs[i] EXCEPT !.timestamp = "settled"] ELSE msgs[i]]

\* mutant: the content is the last chunk
LastChunk(content, chunk) == <<chunk>>

\* content += chunk
Concat(content, chunk) == content \o <<chunk>>

\* mutant: the catch leaves the turn as it is
CatchKeeps(msgs, e) == msgs

\* catch { if (!controller.signal.aborted) setMessages(... the failure notice ...) }
Catch(msgs, e) ==
  IF SessionSignalAborted(e) THEN msgs
  ELSE SetContent(msgs, exchanges[e].assistantId, FailureNotice)

\* finally { if (!controller.signal.aborted) { ... } }: the call is over
Finally(e, msgs) ==
  /\ exchanges' = [exchanges EXCEPT ![e].status = "returned"]
  /\ IF SessionSignalAborted(e)
       THEN /\ sessionMessages' = msgs
            /\ UNCHANGED <<sessionStreamingId, sessionStreaming>>
       ELSE /\ sessionStreamingId' = 0
            /\ sessionStreaming' = FALSE
            /\ sessionMessages' = SetTimestamp(msgs, exchanges[e].assistantId)

\* for await (const chunk of stream): the stream yields a chunk
TurnChunk(e) ==
  LET chunk == <<e, Len(exchanges[e].chunks) + 1>>
      content == Concat(exchanges[e].content, chunk)
  IN
  /\ Pending(e)
  /\ deltasLeft > 0
  /\ deltasLeft' = deltasLeft - 1
  /\ IF SessionSignalAborted(e)
       THEN Finally(e, sessionMessages)
       ELSE /\ exchanges' = [exchanges EXCEPT ![e].chunks = Append(@, chunk),
                                              ![e].content = content]
            /\ sessionMessages' =
                 SetContent(sessionMessages, exchanges[e].assistantId, content)
            /\ UNCHANGED <<sessionStreamingId, sessionStreaming>>
  /\ sessionEvent' = [kind |-> "chunk", exchange |-> e]
  /\ UNCHANGED <<sessionInput, sessionAbortRef, sessionControllers, sessionAborted,
                 sessionMounted, sendsLeft>>
  /\ UNCHANGED <<hookVars, proxyVars, clientVars>>

\* The stream ends: the loop is left, finally runs.
TurnEnd(e) ==
  /\ Pending(e)
  /\ Finally(e, sessionMessages)
  /\ sessionEvent' = [kind |-> "end", exchange |-> e]
  /\ UNCHANGED <<sessionInput, sessionAbortRef, sessionControllers, sessionAborted,
                 sessionMounted, sendsLeft, deltasLeft>>
  /\ UNCHANGED <<hookVars, proxyVars, clientVars>>

\* The stream throws: catch, then finally.
TurnThrow(e) ==
  /\ Pending(e)
  /\ Finally(e, Catch(sessionMessages, e))
  /\ sessionEvent' = [kind |-> "throw", exchange |-> e]
  /\ UNCHANGED <<sessionInput, sessionAbortRef, sessionControllers, sessionAborted,
                 sessionMounted, sendsLeft, deltasLeft>>
  /\ UNCHANGED <<hookVars, proxyVars, clientVars>>

\* The component has mounted with its session.
InitSession ==
  /\ Mounted
  /\ callsLeft = 0
  /\ chunksLeft = 0
  /\ NoProxyRequest /\ NoStream
  /\ sessionMessages = SeedMessages
  /\ sessionInput = <<>>
  /\ sessionStreamingId = 0
  /\ sessionStreaming = FALSE
  /\ sessionAbortRef = 0
  /\ sessionControllers = 0
  /\ sessionAborted = {}
  /\ exchanges = <<>>
  /\ sessionMounted = TRUE
  /\ sendsLeft = MaxCalls + 1
  /\ deltasLeft = MaxChunks
  /\ sessionEvent = NoEvent

NextSession ==
  \/ \E text \in Questions : SendCall(text)
  \/ \E text \in Questions : setInput(text)
  \/ SessionUnmount
  \/ \E e \in DOMAIN exchanges : TurnChunk(e)
  \/ \E e \in DOMAIN exchanges : TurnEnd(e)
  \/ \E e \in DOMAIN exchanges : TurnThrow(e)

SpecSession == InitSession /\ [][NextSession]_vars

\* realStream: body: JSON.stringify({ provider, question, conversationHistory:
\* conversationHistory.map((m) => ({ role: m.role, content: m.content })) })
RequestBody(question, conversationHistory) ==
  [question |-> question, hasHistory |-> TRUE,
   history |-> [i \in DOMAIN conversationHistory |->
                  [role |-> conversationHistory[i].role,
                   content |-> conversationHistory[i].content]]]

\* The message list stream-ai hands to the adapter for exchange e: what
\* sendMessage passes to streamAIResponse, sent by realStream, received by the
\* handler.
FollowUpMessages(e) ==
  LET received == RequestBody(exchanges[e].question, exchanges[e].history)
  IN Messages(History(received), received.question)

\* ------------------------------------------------ Index.tsx: the two modes
\* handleFocusProvider: setAppMode({ mode: 'focused', session }) mounts a
\* FocusedConversation with the provider's content as its first answer.
handleFocusProvider(provider) ==
  LET content == providerStates[provider].content IN
  /\ sessionEvent' = [kind |-> "focus", exchange |-> 0, provider |-> provider]
  /\ IF content = <<>>
       THEN UNCHANGED <<sessionMessages, sessionInput, sessionStreamingId,
                        sessionStreaming, sessionAbortRef, sessionControllers,
                        sessionAborted, exchanges, sessionMounted>>
       ELSE /\ sessionMessages' = Seed(currentQuestion, content)
            /\ sessionInput' = <<>>
            /\ sessionStreamingId' = 0
            /\ sessionStreaming' = FALSE
            /\ sessionAbortRef' = 0
            /\ sessionControllers' = 0
            /\ sessionAborted' = {}
            /\ exchanges' = <<>>
            /\ sessionMounted' = TRUE
  /\ UNCHANGED <<sendsLeft, deltasLeft>>
  /\ UNCHANGED <<hookVars, proxyVars, clientVars>>

\* AIResponseCard.handleDoubleClick: if (content) onFocus(provider); the text
\* of the card is rendered as soon as there is content.
handleDoubleClick(provider) ==
  /\ mounted
  /\ ~sessionMounted
  /\ providerStates[provider].content # <<>>
  /\ handleFocusProvider(provider)

\* AIResponseCard: the button rendered under {isComplete && content && ...}
ContinueButton(provider) ==
  /\ mounted
  /\ ~sessionMounted
  /\ providerStates[provider].isComplete
  /\ providerStates[provider].content # <<>>
  /\ handleFocusProvider(provider)

\* handleBackToAggregator: the FocusedConversation unmounts.
handleBackToAggregator == SessionUnmount

\* The question input and the cards are rendered in aggregator mode only; the
\* streams of the hook go on in both modes.
InitFocus ==
  /\ Mounted
  /\ NoRequest
  /\ callsLeft = MaxCalls - 1
  /\ chunksLeft = MaxChunks

NextFocus ==
  \/ \E q \in Questions : ~sessionMounted /\ handleSubmit(q)
  \/ \E p \in Providers : handleDoubleClick(p)
  \/ \E p \in Providers : ContinueButton(p)
  \/ handleBackToAggregator
  \/ \E r \in DOMAIN runs : RunChunk(r)
  \/ \E r \in DOMAIN runs : RunEnd(r)
  \/ \E r \in DOMAIN runs, err \in Thrown : RunThrow(r, err)

SpecFocus == InitFocus /\ [][NextFocus]_vars

\* ================================================================ properties
IsPrefix(s, t) == Len(s) <= Len(t) /\ SubSeq(t, 1, Len(s)) = s

\* The step is the stream event kind of run r.
EventStep(kind, r) == lastEvent' = [kind |-> kind, run |-> r]

\* The step is some stream event (a chunk, the end of a stream, a throw).
StreamStep == lastEvent'.kind \in {"chunk", "end", "throw"}

\* The step is a submitQuestion call, and one that passes the guard.
SubmitStep == lastEvent'.kind = "submit"

AcceptedSubmit == SubmitStep /\ SubmitGuard(lastEvent'.question)

\* The calls of provider p since the last accepted submit or reset.
Attempts(p) == {r \in DOMAIN runs : runs[r].provider = p /\ ~runs[r].superseded}

\* ----------------------------------------------------------------------- C1
Terminal(record) == record.type \in {"done", "error"}

\* C1: from adapter dispatch on, a terminal record of the outbound body is its
\* last record (so there is at most one and no chunk follows it), the body is
\* closed exactly when it holds a terminal record, and when the generator has
\* finished, whatever the upstream did, the body is closed.
C1_OneTerminalLast ==
  pc # "idle" =>
    /\ \A i \in DOMAIN out : Terminal(out[i]) => i = Len(out)
    /\ closed <=> (out # <<>> /\ Terminal(out[Len(out)]))
    /\ pc = "finished" => closed

\* A read failed after a chunk had been forwarded: the body is the chunk and
\* then the error record.
C1_Witness ==
  /\ pc = "finished"
  /\ closed
  /\ Len(out) = 2
  /\ out[1].type = "chunk"
  /\ out[2] = sseError(<<"read failed">>)

\* ----------------------------------------------------------------------- C2
\* C2: while a session lasts its text only grows by appending, it becomes
\* complete at most once (a complete session is not changed by any stream
\* event), and in the step that makes it complete its text is exactly the
\* chunks its stream yielded, in the order they arrived.
C2_Step ==
  StreamStep =>
    \A p \in Providers :
      LET s == providerStates[p]
          t == providerStates'[p]
      IN
      /\ IsPrefix(s.content, t.content)
      /\ s.isComplete => t = s
      /\ (~s.isComplete /\ t.isComplete) =>
           /\ lastEvent'.kind \in {"end", "throw"}
           /\ runs[lastEvent'.run].provider = p
           /\ t.content = runs[lastEvent'.run].yielded
           /\ runs'[lastEvent'.run].yielded = runs[lastEvent'.run].yielded

\* C2: every step of the orchestrator is such a step.
C2_Complete == [][C2_Step]_vars

\* A session completed without error that holds two chunks of its stream.
C2_Witness ==
  \E p \in Providers :
    /\ providerStates[p].isComplete
    /\ providerStates[p].error = NullError
    /\ Len(providerStates[p].content) = 2
    /\ lastEvent.kind = "end" /\ runs[lastEvent.run].provider = p

\* ----------------------------------------------------------------------- C3
\* C3: a chunk, a completion or an error of a stream that was started before
\* the latest accepted submit or reset changes no session, nor the question,
\* nor the querying flag.
C3_Step ==
  \A r \in DOMAIN runs :
    (StreamStep /\ lastEvent'.run = r /\ runs[r].superseded) =>
      UNCHANGED <<providerStates, currentQuestion, isQuerying>>

LatestAttempt(p) == CHOOSE r \in Attempts(p) : \A s \in Attempts(p) : s <= r

\* C4: the text of a session is always a prefix of the chunks yielded by the
\* latest attempt for its provider: no chunk of an attempt that a retry has
\* superseded is in it.
C4_OnlyNewAttempt ==
  \A p \in Providers :
    (Attempts(p) # {} /\ ~IsAborted(runs[LatestAttempt(p)].signal)) =>
      IsPrefix(providerStates[p].content, runs[LatestAttempt(p)].yielded)

\* ----------------------------------------------------------------------- C5
\* C5: when the stream of one provider fails, that provider's session gets the
\* error message and becomes complete, the three other sessions are unchanged,
\* no signal is aborted and no other call is ended; and every session's text
\* holds only chunks of streams of its own provider.
C5_Step ==
  \A r \in DOMAIN runs :
    (EventStep("throw", r) /\ ~IsAborted(runs[r].signal)) =>
      LET p == runs[r].provider IN
      /\ providerStates'[p].error # NullError
      /\ providerStates'[p].isComplete
      /\ ~providerStates'[p].isStreaming
      /\ \A q \in Providers \ {p} : providerStates'[q] = providerStates[q]
      /\ aborted' = aborted
      /\ \A s \in DOMAIN runs \ {r} : runs'[s] = runs[s]

C5_OwnText ==
  \A p \in Providers :
    \A i \in DOMAIN providerStates[p].content :
      runs[providerStates[p].content[i][1]].provider = p

\* C5: a failure stays in its own session, in every step and every state.
C5_Isolated == []C5_OwnText /\ [][C5_Step]_vars

\* One session failed, and after that another one completed with its own text.
C5_Witness ==
  /\ lastEvent.kind = "end"
  /\ runs[lastEvent.run].status = "completed"
  /\ providerStates[runs[lastEvent.run].provider].content # <<>>
  /\ providerStates[runs[lastEvent.run].provider].error = NullError
  /\ \E p \in Providers : providerStates[p].error # NullError

\* ----------------------------------------------------------------------- C6
\* C6: a chunk of provider P's stream appends that chunk to P's text and
\* changes nothing else of P's session and nothing of the other three.
C6_Step ==
  \A r \in DOMAIN runs :
    (EventStep("chunk", r) /\ ~IsAborted(runs[r].signal)) =>
      providerStates' =
        [providerStates EXCEPT ![runs[r].provider].content =
           Append(@, <<r, Len(runs[r].yielded) + 1>>)]

\* C6: every chunk step only appends the chunk to its own session's text.
C6_AppendOnly == [][C6_Step]_vars

\* Chunks of two streams interleaved: two streaming sessions hold text.
C6_Witness ==
  /\ lastEvent.kind = "chunk"
  /\ \E p, q \in Providers :
       /\ p # q
       /\ providerStates[p].content # <<>> /\ providerStates[p].isStreaming
       /\ providerStates[q].content # <<>> /\ providerStates[q].isStreaming

\* ----------------------------------------------------------------------- C7
\* C7: an event of a stream whose signal is aborted (by a reset, a new submit
\* or the unmount), a throw included, changes no session: no error message is
\* set and nothing is marked complete.
C7_Step ==
  \A r \in DOMAIN runs :
    (StreamStep /\ lastEvent'.run = r /\ IsAborted(runs[r].signal)) =>
      /\ providerStates' = providerStates
      /\ runs'[r].status = "cancelled"

C7_Unmounted ==
  \A r \in DOMAIN runs :
    (runs[r].status = "cancelled" /\ ~runs[r].superseded) =>
      providerStates[runs[r].provider].error = NullError

\* C7: a cancelled stream never sets an error message, in any step or state.
C7_NoErrorOnCancel == []C7_Unmounted /\ [][C7_Step]_vars

\* The read of a stream cancelled by the unmount threw; no session has an error.
C7_Witness ==
  /\ lastEvent.kind = "throw"
  /\ runs[lastEvent.run].status = "cancelled"
  /\ ~runs[lastEvent.run].superseded
  /\ ~mounted
  /\ \A p \in Providers : providerStates[p].error = NullError

\* ----------------------------------------------------------------------- C8
\* The streams still running: not returned and not cancelled.
InFlight == {r \in DOMAIN runs : Live(r) /\ ~IsAborted(runs[r].signal)}

\* The effect of a submit that cancels and restarts.
Restarted ==
  /\ \A r \in InFlight : runs'[r].signal \in aborted'
  /\ abortRef' \notin aborted'
  /\ currentQuestion' = lastEvent'.question
  /\ \A p \in Providers :
       \E r \in DOMAIN runs' :
         /\ r > Len(runs)
         /\ runs'[r] = NewRun(p, lastEvent'.question, abortRef', abortRef')

\* C8 as stated: a submit of a question while a stream of the previous
\* submission is still running cancels the running streams and starts the
\* four sessions of the new question.
C8_Original_Step ==
  (SubmitStep /\ Trim(lastEvent'.question) # <<>> /\ InFlight # {}) => Restarted

C8_Step ==
  SubmitStep =>
    IF isQuerying \/ Trim(lastEvent'.question) = <<>>
      THEN UNCHANGED <<providerStates, currentQuestion, isQuerying, abortRef,
                       nControllers, aborted, runs>>
      ELSE Restarted

NewRuns == {r \in DOMAIN runs' : r > Len(runs)}

C9_Step ==
  AcceptedSubmit =>
    /\ \A p \in Providers :
         /\ providerStates'[p].content = <<>>
         /\ providerStates'[p].error = NullError
         /\ ~providerStates'[p].isComplete
         /\ providerStates'[p].isStreaming
    /\ currentQuestion' = lastEvent'.question
    /\ isQuerying'
    /\ nControllers' = nControllers + 1
    /\ abortRef' = nControllers'
    /\ abortRef' \notin aborted'
    /\ Cardinality(NewRuns) = Len(PROVIDERS)
    /\ \A p \in Providers : \E r \in NewRuns : runs'[r].provider = p
    /\ \A r \in NewRuns :
         /\ runs'[r].signal = abortRef'
         /\ runs'[r].question = lastEvent'.question
         /\ runs'[r].status = "streaming"
         /\ runs'[r].yielded = <<>>

\* C9: every accepted submit leaves four fresh sessions under one new signal.
C9_AcceptedSubmit == [][C9_Step]_vars

\* The state an accepted second submit leaves: four fresh streaming sessions
\* and four streams under the second controller.
C9_Witness ==
  /\ lastEvent.kind = "submit"
  /\ nControllers = 2
  /\ \A p \in Providers : providerStates[p] = entry(TRUE)
  /\ Cardinality({r \in DOMAIN runs : Live(r) /\ runs[r].signal = abortRef}) = 4

\* ---------------------------------------------------------------------- C10
\* The four calls of the latest accepted submit.
BatchRuns == {r \in DOMAIN runs : runs[r].batch = abortRef}

\* C10: while the controller of the latest accepted submit is not aborted,
\* the querying flag is set exactly when one of the four calls of that submit
\* has not returned; once a reset has aborted it the flag is not set.
C10_Querying ==
  abortRef # 0 =>
    /\ ~IsAborted(abortRef) => (isQuerying <=> \E r \in BatchRuns : Live(r))
    /\ (IsAborted(abortRef) /\ mounted) => ~isQuerying

\* All four streams of a submit have terminated, one with an error and one
\* without, and the flag is down.
C10_Witness ==
  /\ abortRef # 0 /\ ~IsAborted(abortRef)
  /\ ~isQuerying
  /\ lastEvent.kind \in {"end", "throw"}
  /\ \E r \in BatchRuns : runs[r].status = "errored"
  /\ \E r \in BatchRuns : runs[r].status = "completed"

\* ---------------------------------------------------------------------- C11
\* The step is a retryProvider call.
RetryStep == lastEvent'.kind = "retry"

\* The calls that retryProvider started.
RetryRuns == {r \in DOMAIN runs : runs[r].batch = 0 /\ runs[r].provider \in Providers}

\* C11: a retry of provider P starts exactly one stream, for P and with the
\* current question, and leaves the other three sessions as they were; and no
\* event of a stream that a retry started changes a session other than P's.
C11_Step ==
  /\ RetryStep =>
       LET p == lastEvent'.provider IN
       /\ runs' = Append(runs, runs'[Len(runs')])
       /\ runs'[Len(runs')].provider = p
       /\ runs'[Len(runs')].question = currentQuestion
       /\ runs'[Len(runs')].status = "streaming"
       /\ currentQuestion # <<>>
       /\ \A q \in Providers \ {p} : providerStates'[q] = providerStates[q]
  /\ \A r \in RetryRuns :
       (StreamStep /\ lastEvent'.run = r) =>
         \A q \in Providers \ {runs[r].provider} :
           providerStates'[q] = providerStates[q]

\* C11: every retry and every event of its stream keeps to its own session.
C11_RetryFrame == [][C11_Step]_vars

\* A chunk of the stream of a retry arrived while another session, complete,
\* holds the text of its own stream.
C11_Witness ==
  /\ lastEvent.kind = "chunk"
  /\ lastEvent.run \in RetryRuns
  /\ providerStates[runs[lastEvent.run].provider].content # <<>>
  /\ \E q \in Providers \ {runs[lastEvent.run].provider} :
       /\ providerStates[q].isComplete
       /\ providerStates[q].content # <<>>

\* ---------------------------------------------------------------------- C12
\* The calls retryProvider started since the last accepted submit or reset.
CurrentRetryRuns == {r \in RetryRuns : ~runs[r].superseded}

C12_NotCancelled ==
  mounted =>
    \A r \in CurrentRetryRuns :
      /\ ~IsAborted(runs[r].signal)
      /\ runs[r].status # "cancelled"

C12_Step ==
  \A r \in CurrentRetryRuns :
    LET p == runs[r].provider IN
    /\ (mounted /\ EventStep("chunk", r)) =>
         /\ runs'[r].yielded = Append(runs[r].yielded, <<r, Len(runs[r].yielded) + 1>>)
         /\ providerStates'[p].content = runs'[r].yielded
    /\ (mounted /\ EventStep("end", r)) =>
         /\ runs'[r].status = "completed"
         /\ providerStates'[p].isComplete
         /\ ~providerStates'[p].isStreaming

\* C12: while the component is mounted and no later submit or reset has
\* happened, the signal of a stream that retryProvider started is not aborted,
\* whatever was cancelled before the retry: each of its chunks is appended to
\* the session's text and the end of the stream makes the session complete.
C12_RetryNotBlocked == []C12_NotCancelled /\ [][C12_Step]_vars

\* After the reset that cancelled the first batch and a second submit, the
\* stream of a retry delivered its chunk and completed its session.
C12_Witness ==
  /\ lastEvent.kind = "end"
  /\ lastEvent.run \in CurrentRetryRuns
  /\ aborted # {}
  /\ LET r == lastEvent.run IN
     /\ runs[r].status = "completed"
     /\ runs[r].yielded # <<>>
     /\ providerStates[runs[r].provider].content = runs[r].yielded
     /\ providerStates[runs[r].provider].isComplete

\* ---------------------------------------------------------------------- C13
\* A session that is idle: no text, no error, neither streaming nor complete.
Idle(p) ==
  /\ providerStates[p].content = <<>>
  /\ providerStates[p].error = NullError
  /\ ~providerStates[p].isStreaming
  /\ ~providerStates[p].isComplete
  /\ providerStates[p].timestamp = 0

\* C13: in the state a reset leaves, whatever the state it was called in, the
\* signal of every stream that has not returned is aborted, the four sessions
\* are idle, the current question is empty and the querying flag is not set.
C13_AfterReset ==
  lastEvent.kind = "reset" =>
    /\ \A r \in DOMAIN runs : Live(r) => IsAborted(runs[r].signal)
    /\ \A p \in Providers : Idle(p)
    /\ currentQuestion = <<>>
    /\ ~isQuerying

\* A reset was called while the four streams of the batch were running, one of
\* them having delivered a chunk: all four are cancelled.
C13_Witness ==
  /\ lastEvent.kind = "reset"
  /\ Cardinality({r \in DOMAIN runs : Live(r) /\ IsAborted(runs[r].signal)}) = Len(PROVIDERS)
  /\ \E r \in DOMAIN runs : Live(r) /\ runs[r].yielded # <<>>

OneRead(adapter, carried, st, rest) ==
  LET s1 == ForLines(adapter, st, CompleteLines(Split(carried \o rest, <<>>, <<>>)))
      s2 == IF s1.flow = "next" THEN Finish(s1) ELSE s1
      end == IF s2.flow = "throw" THEN Caught(s2) ELSE s2
  IN <<end.out, end.closed>>

\* The same for realStream: the chunks yielded and how the generator ends.
StreamOneRead(carried, st, rest) ==
  LET s1 == StreamLines(st, CompleteLines(Split(carried \o rest, <<>>, <<>>)))
  IN <<s1.tokens, s1.thrown, IF s1.flow = "throw" THEN "threw" ELSE "returned">>

\* C15: a read of any length, ending anywhere (inside a record, too), does
\* not change what the decoder will have produced at the end if the rest of
\* the body arrives in one read; and when the decoder ends it has produced
\* exactly that. So from the first read on the events are those of the body
\* delivered in one read, however it is split; for each adapter and for
\* realStream, as long as no read fails.
C15_Step ==
  /\ (pc = "read" /\ upstream'.kind = "ok") =>
       LET adapter == Adapter(reqProvider) IN
       IF pc' = "read"
         THEN OneRead(adapter, buf', Controller(out', closed'), wire')
                = OneRead(adapter, buf, Here, wire)
         ELSE <<out', closed'>> = OneRead(adapter, buf, Here, wire)
  /\ (stage = "read" /\ fetched'.kind = "ok") =>
       IF stage' = "read"
         THEN StreamOneRead(buffer', Generator(tokens'), body')
                = StreamOneRead(buffer, Generator(tokens), body)
         ELSE <<tokens', failure', stage'>>
                = StreamOneRead(buffer, Generator(tokens), body)

\* C15: every step of a decoder keeps the outcome of the one-read decoding.
C15_Reassembly == [][C15_Step]_vars

\* After a first chunk was forwarded a read ended inside the next record: its
\* closing brace is still to come.
C15_Witness ==
  /\ pc = "read"
  /\ out = <<sseChunk("a")>>
  /\ buf = <<"data: ", "{choices:a">>
  /\ wire # <<>> /\ Head(wire) = "}"

\* ---------------------------------------------------------------------- C16
\* C16: when the body ends, the record that is still in the carry-over
\* buffer, its newline not yet received, is decoded like every other record:
\* the decoder ends as if that line had been completed; for each adapter and
\* for realStream.
C16_Step ==
  /\ (pc = "read" /\ wire = <<>> /\ pc' = "finished" /\ upstream'.kind = "ok") =>
       <<out', closed'>> = OneRead(Adapter(reqProvider), buf, Here, <<"\n">>)
  /\ (stage = "read" /\ body = <<>> /\ stage' # "read" /\ fetched'.kind = "ok") =>
       <<tokens', failure', stage'>>
         = StreamOneRead(buffer, Generator(tokens), <<"\n">>)

\* C16: no end of a body loses the record held in the carry-over buffer.
C16_NoRecordLost == [][C16_Step]_vars

\* ---------------------------------------------------------------------- C17
\* C17: of the body chunk a, malformed record, chunk b, [DONE], however it is
\* split into reads, each adapter forwards chunk a, chunk b and the done
\* record and no error record, and realStream yields a and b and returns
\* without throwing, as long as no read fails.
C17_MalformedSkipped ==
  /\ (pc \in {"read", "finished"} /\ upstream.kind = "ok") =>
       /\ \A i \in DOMAIN out : out[i].type # "error"
       /\ IsPrefix(out, <<sseChunk("a"), sseChunk("b"), sseDone>>)
       /\ pc = "finished" => (out = <<sseChunk("a"), sseChunk("b"), sseDone>> /\ closed)
  /\ (stage \in {"read", "returned", "threw"} /\ fetched.kind = "ok") =>
       /\ stage # "threw" /\ failure = <<>>
       /\ IsPrefix(tokens, <<"a", "b">>)
       /\ stage = "returned" => tokens = <<"a", "b">>

\* The Anthropic adapter has finished: both chunks and the done record.
C17_Witness ==
  /\ pc = "finished"
  /\ Adapter(reqProvider) = "anthropic"
  /\ upstream.kind = "ok"
  /\ out = <<sseChunk("a"), sseChunk("b"), sseDone>>

\* ---------------------------------------------------------------------- C18
\* C18: when the upstream answers with a non-2xx status, the outbound body
\* is one error record, whose message holds the status and the text of the
\* upstream's body, and nothing else: no chunk, no done record; and it is
\* closed.
C18_NotOk ==
  upstream.kind = "status" =>
    /\ pc = "finished"
    /\ closed
    /\ Len(out) = 1
    /\ out[1].type = "error"
    /\ out[1].message =
         <<ErrorPrefix(Adapter(reqProvider)), upstream.status, ": ">> \o upstream.text

\* The Anthropic upstream answered 401 with a body text.
C18_Witness ==
  /\ upstream.kind = "status"
  /\ upstream.status = "401"
  /\ upstream.text # <<>>
  /\ reqProvider = "claude"
  /\ out = <<sseError(<<"Anthropic error ", "401", ": ", "body">>)>>

\* ---------------------------------------------------------------------- C19
\* The handler answered that no key is configured.
NoKeyAnswer == pc = "answered" /\ lookups > 0 /\ response.status = 400

\* C19: when there is neither a stored key nor an environment key for the
\* provider, no upstream call is made and the answer is an error record of
\* the outbound protocol, framed as `data: ...` and a blank line, whose
\* message names the provider.
C19_NoKeyRecord ==
  NoKeyAnswer =>
    /\ upstream.kind = "none"
    /\ out = <<>>
    /\ response.text = Frame(sseError(NoKeyMessage(reqProvider)))

\* ---------------------------------------------------------------------- C20
\* C20: a POST request whose JSON body has no provider or no question
\* (missing or empty) is answered with status 400, without a getUserApiKey
\* call, without a key being resolved and without an upstream call.
C20_MissingField ==
  (/\ pc # "request"
   /\ request.method = "POST"
   /\ request.json
   /\ (~Truthy(reqProvider) \/ ~Truthy(request.question))) =>
    /\ pc = "answered"
    /\ response.status = 400
    /\ response.text = <<"Missing provider or question">>
    /\ lookups = 0
    /\ apiKey = NoKey
    /\ upstream.kind = "none"
    /\ out = <<>>

\* The question is empty and a key for the provider is stored: the answer is
\* the 400, and the key was not looked up.
C20_Witness ==
  /\ pc = "answered"
  /\ response.status = 400
  /\ reqProvider \in Providers
  /\ request.question = ""
  /\ storedKey # NoKey
  /\ lookups = 0

\* ---------------------------------------------------------------------- C21
\* The handler has resolved a key and returned the streaming Response.
Streaming == pc \in {"dispatch", "read", "finished"}

C22_MessageList ==
  Streaming =>
    LET prior == IF request.hasHistory THEN request.history ELSE <<>> IN
    /\ Len(messages) = Len(prior) + 1
    /\ \A i \in DOMAIN prior : messages[i] = prior[i]
    /\ messages[Len(messages)] = [role |-> "user", content |-> request.question]

\* A follow-up: two prior turns, then the new question.
C22_Witness ==
  /\ pc = "dispatch"
  /\ request.hasHistory
  /\ messages = <<[role |-> "user", content |-> "q"],
                  [role |-> "assistant", content |-> "r"],
                  [role |-> "user", content |-> "x"]>>

\* ---------------------------------------------------------------------- C23
\* The complete lines a read step has delivered to the for loop.
LinesRead ==
  CompleteLines(Split(buf \o SubSeq(wire, 1, Len(wire) - Len(wire')), <<>>, <<>>))

\* The step is a read of the adapter.
ReadStep == pc = "read" /\ Len(wire') < Len(wire)

\* The line of each dialect that carries the provider's error envelope.
ErrorEnvelope(adapter) ==
  IF adapter = "anthropic" THEN <<"data: ", "{type-error:m", "}">>
  ELSE <<"data: ", "{error:m", "}">>

\* The loop reaches line i of the read: no line before it ended the stream.
Reached(adapter, lines, i) ==
  ForLines(adapter, Here, SubSeq(lines, 1, i - 1)).flow = "next"

\* C23: when the loop of an adapter reaches a line that carries the
\* provider's error envelope, the outbound body gets an error record with the
\* envelope's message after what the lines before it produced, nothing more,
\* and the adapter has stopped.
C23_Step ==
  ReadStep =>
    LET adapter == Adapter(reqProvider) IN
    \A i \in DOMAIN LinesRead :
      (LinesRead[i] = ErrorEnvelope(adapter) /\ Reached(adapter, LinesRead, i)) =>
        /\ pc' = "finished"
        /\ closed'
        /\ out' = Append(ForLines(adapter, Here, SubSeq(LinesRead, 1, i - 1)).out,
                         sseError(<<"m">>))

\* C23: every read step that meets an error envelope ends the body with it.
C23_ErrorEnvelope == [][C23_Step]_vars

\* ---------------------------------------------------------------------- C24
\* The line of each dialect that says the stream is finished, if it has one.
Sentinel(adapter) ==
  CASE adapter = "openai" -> {<<"data: ", "[DONE]">>, <<"data: ", "[DONE]", "\r">>}
    [] adapter = "anthropic" -> {<<"data: ", "{stop", "}">>}
    [] OTHER -> {}

\* C24: when the loop of an adapter reaches its sentinel, the outbound body
\* gets the done record after what the lines before it produced, is closed,
\* and the adapter has stopped: what follows the sentinel in the read adds
\* nothing. And when the upstream body ends while the adapter is reading, the
\* outbound body gets the done record and is closed.
C24_Step ==
  LET adapter == Adapter(reqProvider) IN
  /\ ReadStep =>
       \A i \in DOMAIN LinesRead :
         (LinesRead[i] \in Sentinel(adapter) /\ Reached(adapter, LinesRead, i)) =>
           /\ pc' = "finished"
           /\ closed'
           /\ out' = Append(ForLines(adapter, Here, SubSeq(LinesRead, 1, i - 1)).out,
                            sseDone)
  /\ (pc = "read" /\ wire = <<>> /\ pc' = "finished" /\ upstream'.kind = "ok") =>
       /\ closed'
       /\ out' = Append(out, sseDone)

\* C24: every adapter ends the body with the done record at its sentinel and
\* at the end of the upstream body.
C24_Sentinel == [][C24_Step]_vars

\* The Anthropic adapter stopped at message_stop after a chunk, while a part
\* of the upstream body had not been read yet.
C24_Witness ==
  /\ pc = "finished"
  /\ Adapter(reqProvider) = "anthropic"
  /\ upstream.kind = "ok"
  /\ out = <<sseChunk("a"), sseDone>>
  /\ closed
  /\ wire # <<>>

\* ---------------------------------------------------------------------- C25
\* C25: no chunk record of an outbound body and no chunk yielded by realStream
\* is empty; the records of the body that carry an empty text or no text have
\* produced nothing once the body has been read to its end.
C25_NoEmptyChunk ==
  /\ \A i \in DOMAIN out :
       out[i].type = "chunk" => out[i].content \notin {"", Undefined}
  /\ \A i \in DOMAIN tokens : tokens[i] \notin {"", Undefined}
  /\ (pc = "finished" /\ upstream.kind = "ok") =>
       out = <<sseChunk("a"), sseChunk("b"), sseDone>>
  /\ stage = "returned" => tokens = <<"a", "b">>

\* The Google adapter has read the body with its two textless records to the
\* end.
C25_Witness ==
  /\ pc = "finished"
  /\ Adapter(reqProvider) = "gemini"
  /\ upstream.kind = "ok"
  /\ wire = <<>>
  /\ out = <<sseChunk("a"), sseChunk("b"), sseDone>>

\* ---------------------------------------------------------------------- C26
\* The complete lines a read step of realStream has delivered to its for loop.
StreamLinesRead ==
  CompleteLines(Split(buffer \o SubSeq(body, 1, Len(body) - Len(body')), <<>>, <<>>))

\* The lines of a well-formed proxy stream: chunk, error and [DONE] records, and
\* the blank lines between them.
IsChunkRecord(line) ==
  Len(line) = 4 /\ line[1] = "data: " /\ line[2] = "{chunk:" /\ line[3] # ""
    /\ line[4] = "}"

IsErrorRecord(line) ==
  Len(line) = 4 /\ line[1] = "data: " /\ line[2] = "{error:" /\ line[4] = "}"

IsDoneRecord(line) == line = <<"data: ", "[DONE]">>

IsRecord(line) ==
  line = <<>> \/ IsChunkRecord(line) \/ IsErrorRecord(line) \/ IsDoneRecord(line)

\* The lines before the first done or error record, and that record's place
\* (one past the last line if there is none).
Terminals(lines) ==
  {i \in DOMAIN lines : IsDoneRecord(lines[i]) \/ IsErrorRecord(lines[i])}

FirstTerminal(lines) ==
  IF Terminals(lines) = {} THEN Len(lines) + 1
  ELSE CHOOSE i \in Terminals(lines) : \A j \in Terminals(lines) : i <= j

\* The contents of the chunk records of a sequence of lines, in order.
Contents(lines) ==
  LET chunks == SelectSeq(lines, IsChunkRecord)
  IN [i \in DOMAIN chunks |-> chunks[i][3]]

\* C26: a read of realStream that delivers records of the proxy stream adds to
\* the chunks yielded the contents of the chunk records before the first done
\* or error record, in order, and nothing else; at a done record the generator
\* returns, at an error record it throws the record's message, and without
\* either it goes on reading.
C26_Step ==
  (stage = "read" /\ Len(body') < Len(body)
     /\ \A i \in DOMAIN StreamLinesRead : IsRecord(StreamLinesRead[i])) =>
    LET lines == StreamLinesRead
        t == FirstTerminal(lines)
    IN
    /\ tokens' = tokens \o Contents(SubSeq(lines, 1, t - 1))
    /\ IF t > Len(lines) THEN stage' = "read" /\ failure' = <<>>
       ELSE IF IsDoneRecord(lines[t]) THEN stage' = "returned" /\ failure' = <<>>
       ELSE stage' = "threw" /\ failure' = <<lines[t][3]>>

\* C26: every read of realStream decodes the records of the proxy stream so.
C26_Decode == [][C26_Step]_vars

\* realStream threw the message of an error record after it had yielded the
\* chunk that came before it.
C26_Witness ==
  /\ stage = "threw"
  /\ fetched.kind = "ok"
  /\ tokens = <<"a">>
  /\ failure = <<"m">>

\* ---------------------------------------------------------------------- C27
\* C27: once the signal passed to streamAIResponse is aborted the generator
\* yields no further chunk, in either mode.
C27_Step == cancelled => tokens' = tokens

\* C27: no step taken after the cancellation adds a chunk to the sequence.
C27_NoChunkAfterCancel == [][C27_Step]_vars

\* ---------------------------------------------------------------------- C28
\* The step is a call of sendMessage.
SendStep == sendsLeft' < sendsLeft

\* The turn an exchange streams into.
TurnOf(msgs, e) == CHOOSE i \in DOMAIN msgs : msgs[i].id = exchanges[e].assistantId

\* C28 as stated: a call of sendMessage with a message while a stream of the
\* session is running aborts that stream and starts a new exchange.
C28_SendCancelsStep ==
  (SendStep /\ sessionStreaming /\ Trim(sessionEvent'.text) # <<>>) =>
    /\ \A e \in DOMAIN exchanges :
         Pending(e) => exchanges[e].controller \in sessionAborted'
    /\ Len(exchanges') = Len(exchanges) + 1

C28_SendCancels == [][C28_SendCancelsStep]_vars

\* At most one exchange of the session has a stream that has not ended.
C28_AtMostOne == Cardinality({e \in DOMAIN exchanges : Pending(e)}) <= 1

C28_Step ==
  /\ (SendStep /\ sessionStreaming) =>
       UNCHANGED <<sessionMessages, sessionInput, sessionStreamingId, sessionStreaming,
                   sessionAbortRef, sessionControllers, sessionAborted, exchanges>>
  /\ \A e \in DOMAIN exchanges :
       SessionSignalAborted(e) =>
         sessionMessages'[TurnOf(sessionMessages, e)]
           = sessionMessages[TurnOf(sessionMessages, e)]

\* C28: a call of sendMessage while a stream of the session is running is
\* ignored: no turn is added, no stream is started and the running one is not
\* aborted. So at most one stream of the session is in flight at any time;
\* and the turn of an exchange whose signal is aborted never changes again.
C28_OneInFlight == []C28_AtMostOne /\ [][C28_Step]_vars

\* A message was sent while the first follow-up was streaming and had
\* received a chunk: the session still has that one exchange, not aborted.
C28_Witness ==
  /\ sessionEvent.kind = "send"
  /\ Trim(sessionEvent.text) # <<>>
  /\ sessionStreaming
  /\ Len(exchanges) = Len(<<"first">>)
  /\ Pending(1)
  /\ ~SessionSignalAborted(1)
  /\ exchanges[1].chunks # <<>>

\* ---------------------------------------------------------------------- C29
\* The stream of exchange e delivers a chunk and its signal is not aborted.
ChunkStep(e) ==
  /\ deltasLeft' < deltasLeft
  /\ sessionEvent'.exchange = e
  /\ ~SessionSignalAborted(e)

\* The turn of a running exchange is the pending assistant turn, and its
\* content is the chunks received so far, in order.
C29_Concatenation ==
  \A e \in DOMAIN exchanges :
    (Pending(e) /\ ~SessionSignalAborted(e)) =>
      LET turn == sessionMessages[TurnOf(sessionMessages, e)] IN
      /\ turn.id = sessionStreamingId
      /\ turn.role = "assistant"
      /\ turn.content = exchanges[e].chunks

C29_Step ==
  \A e \in DOMAIN exchanges :
    ChunkStep(e) =>
      /\ Len(exchanges'[e].chunks) = Len(exchanges[e].chunks) + 1
      /\ SubSeq(exchanges'[e].chunks, 1, Len(exchanges[e].chunks)) = exchanges[e].chunks
      /\ DOMAIN sessionMessages' = DOMAIN sessionMessages
      /\ \A i \in DOMAIN sessionMessages :
           IF i = TurnOf(sessionMessages, e)
             THEN sessionMessages'[i] =
                    [sessionMessages[i] EXCEPT !.content = exchanges'[e].chunks]
             ELSE sessionMessages'[i] = sessionMessages[i]

\* C29: a chunk changes the content of the pending assistant turn of its
\* exchange and nothing else of the turns: their number, their order and every
\* other turn stay; and that content is always the chunks received so far.
C29_ChunkFrame == []C29_Concatenation /\ [][C29_Step]_vars

\* The first follow-up has received two chunks.
C29_Witness ==
  /\ sessionEvent.kind = "chunk"
  /\ Len(exchanges) = Len(<<"first">>)
  /\ Pending(1)
  /\ sessionMessages[4].content = <<<<1, 1>>, <<1, 2>>>>
  /\ sessionMessages[3].content = <<"x">>

\* ---------------------------------------------------------------------- C30
\* The stream of exchange e throws and its signal is not aborted.
FailStep(e) ==
  /\ Pending(e)
  /\ exchanges'[e].status = "returned"
  /\ sessionEvent'.kind = "throw"
  /\ ~SessionSignalAborted(e)

C30_Step ==
  \A e \in DOMAIN exchanges :
    FailStep(e) =>
      /\ DOMAIN sessionMessages' = DOMAIN sessionMessages
      /\ \A i \in DOMAIN sessionMessages :
           IF i = TurnOf(sessionMessages, e)
             THEN /\ sessionMessages'[i].content = FailureNotice
                  /\ sessionMessages'[i].id = sessionMessages[i].id
                  /\ sessionMessages'[i].role = sessionMessages[i].role
             ELSE sessionMessages'[i] = sessionMessages[i]
      /\ ~sessionStreaming'
      /\ sessionStreamingId' = 0

\* C30: when the stream of an exchange throws and its signal is not aborted,
\* the content of the pending assistant turn becomes the failure notice,
\* whatever it held, every other turn stays, and the session is no longer
\* streaming, so that sendMessage accepts a message again.
C30_FailureNotice == [][C30_Step]_vars

\* The stream of the first follow-up threw after a chunk: the notice has
\* replaced the partial text.
C30_Witness ==
  /\ sessionEvent.kind = "throw"
  /\ ~SessionSignalAborted(1)
  /\ exchanges[1].chunks # <<>>
  /\ sessionMessages[4].content = FailureNotice
  /\ ~sessionStreaming

\* ---------------------------------------------------------------------- C31
\* The step enters focused mode for provider p.
FocusStep(p) ==
  /\ ~sessionMounted
  /\ sessionMounted'
  /\ sessionEvent'.kind = "focus"
  /\ sessionEvent'.provider = p

\* C31: focused mode is entered for a provider only when its session is
\* complete, and the session starts with exactly two turns: the current
\* question as a user turn, then the provider's (final) content as an
\* assistant turn.
C31_Step ==
  \A p \in Providers :
    FocusStep(p) =>
      /\ providerStates[p].isComplete
      /\ ~providerStates[p].isStreaming
      /\ Len(sessionMessages') = 2
      /\ sessionMessages'[1].role = "user"
      /\ sessionMessages'[1].content = currentQuestion
      /\ sessionMessages'[2].role = "assistant"
      /\ sessionMessages'[2].content = providerStates[p].content

C31_SeededWhenComplete == [][C31_Step]_vars

\* ---------------------------------------------------------------------- C37
\* C37: the message list dispatched upstream for a follow-up alternates user
\* and assistant turns from the seeded question on, and is the turns the
\* session had before the message (two for the seed, two for each earlier
\* follow-up) followed by the new user message, once, as its last turn.
C37_Alternation ==
  \A e \in DOMAIN exchanges :
    LET list == FollowUpMessages(e) IN
    /\ Len(list) = 2 * e + 1
    /\ \A i \in DOMAIN list :
         list[i].role = IF i % 2 = 1 THEN "user" ELSE "assistant"
    /\ list[Len(list)] = [role |-> "user", content |-> exchanges[e].question]
\* ---------------------------------------------------------------------- C32
\* The step calls the recorder.
SaveStep == saves' # saves

\* No submission is recorded twice.
C32_AtMostOnce ==
  \A i, j \in DOMAIN saves : saves[i].batch = saves[j].batch => i = j

\* The recorder is called with the current question, in a state in which the
\* four sessions are complete; and never for the question recorded last.
C32_Step ==
  /\ SaveStep =>
       /\ \A p \in Providers : providerStates'[p].isComplete
       /\ Len(saves') = Len(saves) + 1
       /\ saves'[Len(saves')].question = currentQuestion'
       /\ currentQuestion' # <<>>
  /\ (saves # <<>> /\ saves[Len(saves)].question = currentQuestion') =>
       ~SaveStep

\* C32: the recorder is called only in a state where the four sessions are
\* complete, and at most once per completed question: not again when a
\* provider is retried afterwards and the four are complete once more.
C32_RecordedOnce == []C32_AtMostOnce /\ [][C32_Step]_vars

\* The question was recorded, a provider was retried after that, and its new
\* stream has ended, so that the four sessions are complete again: there is
\* still one record.
C32_Witness ==
  /\ Len(saves) = 1
  /\ \A p \in Providers : providerStates[p].isComplete
  /\ lastEvent.kind \in {"end", "throw"}
  /\ lastEvent.run > saves[1].runs
  /\ runs[lastEvent.run].batch = 0
  /\ runs[lastEvent.run].question = saves[1].question
  /\ saves[1].batch = abortRef

\* ---------------------------------------------------------------------- C40
\* The records of the submission that controller b belongs to.
SavesOf(b) == {i \in DOMAIN saves : saves[i].batch = b}

\* C40: every submission whose four sessions are all complete has been handed
\* to the recorder exactly once, whatever the text of the question recorded
\* before it.
C40_EveryCompletedRecorded ==
  (currentQuestion # <<>> /\ \A p \in Providers : providerStates[p].isComplete) =>
    Cardinality(SavesOf(abortRef)) = 1

\* ---------------------------------------------------------------------- C33
\* A session with an error is complete and not streaming.
C33_ErrorOnlyComplete ==
  \A p \in Providers :
    providerStates[p].error # NullError =>
      providerStates[p].isComplete /\ ~providerStates[p].isStreaming

\* The step starts a new attempt for provider p, or clears the sessions.
ReplacesStep(p) ==
  \/ lastEvent'.kind \in {"submit", "reset"}
  \/ lastEvent'.kind = "retry" /\ lastEvent'.provider = p

\* The text of a complete session changes only in a step that replaces it.
C33_Step ==
  \A p \in Providers :
    (providerStates[p].isComplete
       /\ providerStates'[p].content # providerStates[p].content) =>
      /\ ReplacesStep(p)
      /\ providerStates'[p].content = <<>>
      /\ ~providerStates'[p].isComplete

\* C33: a session has an error message only if it is complete and not
\* streaming, and the text of a complete session stays as it is until a submit,
\* a retry of its provider or a reset replaces the session.
C33_Frozen == []C33_ErrorOnlyComplete /\ [][C33_Step]_vars

\* ---------------------------------------------------------------------- C35
\* The state of the hook and of the page's recorder, without the budgets.
hookState ==
  <<providerStates, currentQuestion, isQuerying, abortRef, nControllers,
    aborted, runs, mounted, savedRef, saves>>

\* C35: a reset leaves a state that a further reset would not change, and a
\* reset of a state that a reset left changes nothing; after a reset no event
\* of a stream it cancelled changes a session.
C35_Step ==
  /\ lastEvent'.kind = "reset" =>
       /\ aborted' = AbortCurrent'
       /\ providerStates' = makeInitialState(FALSE)
       /\ currentQuestion' = <<>>
       /\ ~isQuerying'
       /\ runs' = Supersede(runs')
       /\ lastEvent.kind = "reset" => hookState' = hookState
  /\ (lastEvent.kind = "reset" /\ StreamStep) => providerStates' = providerStates

\* C35: cancellation is idempotent: a reset applied to a hook already reset,
\* already cancelled or already finished changes nothing beyond what the
\* first reset did.
C35_Idempotent == [][C35_Step]_vars

\* A reset was applied to the state a reset had left.
C35_Witness ==
  /\ lastEvent.kind = "reset"
  /\ callsLeft < MaxCalls
  /\ runs = [i \in DOMAIN PROVIDERS |-> Returned]
  /\ aborted = {abortRef}

\* The four sessions of a question were complete when the reset came.
C35_WitnessFinished ==
  /\ lastEvent.kind = "reset"
  /\ Len(saves) = 1
  /\ saves[1].batch = abortRef
  /\ abortRef \in aborted

\* ---------------------------------------------------------------------- C36
\* The step is the end or the failure of a stream of provider p.
TerminalStep(p) ==
  /\ lastEvent'.kind \in {"end", "throw"}
  /\ runs[lastEvent'.run].provider = p

\* A session leaves the streaming phase only when a stream of its provider
\* ends or fails, or in a reset; the querying flag falls only in such a step.
C36_Step ==
  /\ \A p \in Providers :
       (providerStates[p].isStreaming /\ ~providerStates'[p].isStreaming) =>
         TerminalStep(p) \/ lastEvent'.kind = "reset"
  /\ (isQuerying /\ ~isQuerying') =>
       lastEvent'.kind \in {"end", "throw", "reset"}

\* C36: there is no timeout. A session stays streaming, and the querying flag
\* stays true, in every step that is not the end or the failure of a stream
\* or a reset: chunks, retries of other providers and the passing of time
\* leave them as they are.
C36_NoTimeout == [][C36_Step]_vars

\* The streams have gone silent: a session has text, is still streaming, no
\* further chunk will come, and the querying flag is still true.
C36_Witness ==
  /\ isQuerying
  /\ chunksLeft = 0
  /\ lastEvent.kind = "chunk"
  /\ \E p \in Providers :
       /\ providerStates[p].isStreaming
       /\ providerStates[p].content # <<>>
       /\ ~providerStates[p].isComplete

\* ---------------------------------------------------------------------- C39
\* The streams in flight that a submit started, and those a retry started.
BatchInFlight == {r \in InFlight : runs[r].batch # 0}

RetryInFlight == {r \in InFlight : runs[r].batch = 0}

\* While only streams of retries are in flight the querying flag is not set.
C39_FlagFalse == (BatchInFlight = {} /\ RetryInFlight # {}) => ~isQuerying

C39_Step ==
  \* a retry runs under the signal of the last submission and leaves the flag
  /\ (RetryStep /\ runs' # runs) =>
       /\ runs'[Len(runs')].signal = abortRef
       /\ abortRef = nControllers
       /\ isQuerying' = isQuerying
  \* a submit issued while only a retry is in flight is accepted
  /\ (SubmitStep /\ BatchInFlight = {} /\ RetryInFlight # {}
        /\ Trim(lastEvent'.question) # <<>>) =>
       /\ abortRef' = nControllers + 1
       /\ isQuerying'
  \* a submit or a reset cancels the streams of retries
  /\ (lastEvent'.kind = "reset" \/ (SubmitStep /\ runs' # runs)) =>
       \A r \in RetryInFlight : runs[r].signal \in aborted'
  \* no event of the stream of a retry changes the flag, and none of a
  \* cancelled one changes a session
  /\ \A r \in RetryRuns :
       (StreamStep /\ lastEvent'.run = r) =>
         /\ isQuerying' = isQuerying
         /\ IsAborted(runs[r].signal) => providerStates' = providerStates

\* C39: the stream of a retry runs under the signal of the most recent
\* submission and never changes the querying flag. While only a retry is in
\* flight the flag is not set and a submit is accepted; that submit, or a
\* reset, aborts the signal of the retry, and no later chunk of its stream
\* changes a session.
C39_RetryUnderSubmission == []C39_FlagFalse /\ [][C39_Step]_vars

\* A submit was accepted while only the stream of a retry was in flight, and
\* then a chunk of that stream arrived.
C39_Witness ==
  /\ lastEvent.kind = "chunk"
  /\ lastEvent.run \in RetryRuns
  /\ runs[lastEvent.run].superseded
  /\ runs[lastEvent.run].status = "cancelled"
  /\ isQuerying
  /\ abortRef > runs[lastEvent.run].signal
  /\ \A p \in Providers : providerStates[p].isStreaming /\ providerStates[p].content = <<>>

\* ---------------------------------------------------------------------- C34
\* The text delta an upstream record carries in the dialect of the adapter.
TextDelta(adapter, line) ==
  IF ~StartsWithData(line) THEN Undefined
  ELSE LET parsed == JSONparse(Payload(line))
           value == parsed.value
       IN
       IF ~parsed.ok \/ value.isNull THEN Undefined
       ELSE CASE adapter = "openai" -> value.choicesContent
              [] adapter = "anthropic" ->
                   IF value.type = "content_block_delta" /\ value.deltaType = "text_delta"
                     THEN value.deltaText ELSE Undefined
              [] OTHER -> value.candidateText

\* The non-empty text deltas of the lines of a read, from line i on, as far as
\* the loop gets.
RECURSIVE DeltasFrom(_, _, _)
DeltasFrom(adapter, lines, i) ==
  IF i > Len(lines) \/ ~Reached(adapter, lines, i) THEN <<>>
  ELSE LET d == TextDelta(adapter, lines[i]) IN
       (IF d # Undefined /\ d # "" THEN <<d>> ELSE <<>>)
         \o DeltasFrom(adapter, lines, i + 1)

\* The contents of the chunk records among the records, in order.
RECURSIVE ChunkContents(_)
ChunkContents(records) ==
  IF records = <<>> THEN <<>>
  ELSE (IF Head(records).type = "chunk" THEN <<Head(records).content>> ELSE <<>>)
         \o ChunkContents(Tail(records))

\* Every read step adds to the outbound body, behind what is there, one chunk
\* record per non-empty text delta of the lines it read, in their order; no
\* other step adds a chunk record, and no step changes what is enqueued.
C34_Step ==
  /\ Len(out') >= Len(out)
  /\ SubSeq(out', 1, Len(out)) = out
  /\ ChunkContents(out') =
       ChunkContents(out) \o
         (IF ReadStep THEN DeltasFrom(Adapter(reqProvider), LinesRead, 1) ELSE <<>>)

\* C34: the proxy forwards without reordering, merging or batching: the chunk
\* records of the outbound body are the non-empty text deltas of the upstream
\* records in arrival order, one record per delta, enqueued in the read step
\* that delivered the delta.
C34_InOrder == [][C34_Step]_vars

\* The OpenAI adapter has forwarded two deltas of different text, and is
\* still reading.
C34_Witness ==
  /\ Adapter(reqProvider) = "openai"
  /\ pc = "read"
  /\ out = <<sseChunk("a"), sseChunk("b")>>
  /\ wire # <<>>

\* ---------------------------------------------------------------------- C38
\* The text of a body holds no terminal record: no [DONE], no error record.
NoTerminalRecord(text) ==
  \A i \in DOMAIN text : text[i] \notin {"[DONE]", "{error:"}

\* The session of a provider whose stream ended after n chunks of run r.
CompletedSession(r, n) ==
  [content |-> [i \in 1..n |-> <<r, i>>], isStreaming |-> FALSE,
   isComplete |-> TRUE, error |-> NullError, timestamp |-> r]

\* Once the call has completed its session, the generator has returned
\* without a failure and the session is the same whatever ended the body: it
\* is complete, has no error and holds one chunk per chunk received.
C38_Completed ==
  runs[ConsumedRun].status = "completed" =>
    /\ stage = "returned"
    /\ failure = <<>>
    /\ providerStates[runs[ConsumedRun].provider] =
         CompletedSession(ConsumedRun, Len(tokens))

\* When the body ends while realStream is reading, the generator returns: it
\* does not throw, and yields nothing more. Once it has returned, the only
\* way on for the call is to complete its session.
C38_Step ==
  /\ (stage = "read" /\ body = <<>> /\ stage' # "read" /\ fetched'.kind = "ok") =>
       /\ stage' = "returned"
       /\ failure' = <<>>
       /\ tokens' = tokens
  /\ (stage = "returned" /\ lastEvent'.kind \in {"end", "throw"}) =>
       runs'[ConsumedRun].status = "completed"

\* C38: when the body of the proxy ends without a terminal record, the
\* sequence of realStream ends without raising and the session becomes
\* complete, without an error and with the text received so far, exactly as
\* after a body that ended with [DONE].
C38_EndOfBody == []C38_Completed /\ [][C38_Step]_vars

\* A body of two chunk records and no terminal record has been read to its
\* end, and the session is complete with the two chunks.
C38_Witness ==
  /\ runs[ConsumedRun].status = "completed"
  /\ NoTerminalRecord(fetched.text)
  /\ body = <<>>
  /\ Len(tokens) = MaxChunks
  /\ providerStates[runs[ConsumedRun].provider].isComplete
  /\ providerStates[runs[ConsumedRun].provider].error = NullError

====
